---- MODULE Spec2Model ----
(***************************************************************************)
(* A model of the type resolution and schema derivation engine of         *)
(* go-static-analyzer: the type registry, the two collectors              *)
(* (TypeCollector.CollectTypes, PackageResolver.ScanPackage), the         *)
(* resolvers, the variable tracker, the response analyzer and the JSON    *)
(* schema generator.                                                        *)
(*                                                                         *)
(* A *TypeDefinition pointer is modelled as one of                         *)
(*   [tag |-> "nil"]            the nil pointer                             *)
(*   [tag |-> "ref", id |-> i]  a pointer to heap[i]: a node created by a  *)
(*                              processTypeDeclaration, which is the only  *)
(*                              kind of node other nodes can share         *)
(*   [tag |-> "node", ...]      a node owned by its one holder (the        *)
(*                              wrappers and placeholders built by         *)
(*                              ResolveType and the resolvers)             *)
(***************************************************************************)
EXTENDS Integers, Sequences, FiniteSets, TLC

VARIABLES
    world,           \* the source tree on disk (fixed during a run)
    Packages,        \* TypeRegistry.Packages
    CurrentPackage,  \* TypeRegistry.CurrentPackage
    heap,            \* the TypeDefinition nodes created by the collectors
    ParsedPackages,  \* PackageResolver.ParsedPackages
    Variables,       \* VariableTracker.Variables
    tracked,         \* the function the tracker last ran on ("" for none)
    Responses,       \* ResponseAnalyzer.Responses
    analyzed,        \* the function the response analyzer last ran on
    Schemas,         \* SchemaGenerator.Schemas
    generated,       \* the results of the generator calls made so far
    collects,        \* collections made so far, per package
    done,            \* the resolution passes that have returned
    crashed,         \* the process died (stack overflow or panic)
    fault,           \* what it died in ("" while it runs)
    scanFiles,       \* the parsed files handed to RouteScanner.Scan
    echoVarNames,    \* RouteScanner.echoVarNames
    Routes,          \* RouteScanner.Routes
    scans            \* calls of RouteScanner.Scan made so far

\* The state of the route scanner and of everything else.
scanVars == <<scanFiles, echoVarNames, Routes, scans>>
vars == <<world, Packages, CurrentPackage, heap, ParsedPackages, Variables,
          tracked, Responses, analyzed, Schemas, generated, collects, done,
          crashed, fault, scanVars>>

(***************************************************************************)
(* Bounds of the model.                                                     *)
(***************************************************************************)
MaxCollect == 1    \* collections of one package (by either collector)
MaxGenerated == 1  \* generator calls per run
MaxScans == 1      \* calls of RouteScanner.Scan per run
MaxFileLen == 3    \* statements of a file handed to the route scanner

(***************************************************************************)
(* Maps (Go's map[string]T) as functions with a finite domain.             *)
(***************************************************************************)
EmptyMap == [x \in {} |-> 0]

\* F of the value v, worked out once: LET x == v IN F(x).
With(v, F(_)) == F(v)
Put(f, k, v) == [x \in (DOMAIN f) \cup {k} |-> IF x = k THEN v ELSE f[x]]
Range(s) == {s[i] : i \in DOMAIN s}

(***************************************************************************)
(* internal/types/registry.go: the data model.                              *)
(***************************************************************************)
KindStruct == "struct"
KindArray == "array"
KindMap == "map"
KindBasic == "basic"
KindPointer == "pointer"

NilT == [tag |-> "nil"]
Ref(id) == [tag |-> "ref", id |-> id]

TypeDefinition(name, kind, fields, elem, key, val, pkg, basic, resolved) ==
    [tag |-> "node", Name |-> name, Kind |-> kind, Fields |-> fields,
     ElementType |-> elem, KeyType |-> key, ValueType |-> val,
     Package |-> pkg, BasicType |-> basic, IsResolved |-> resolved]

FieldDefinition(name, type, jsonName, omitempty, isPointer) ==
    [Name |-> name, Type |-> type, JSONName |-> jsonName,
     Omitempty |-> omitempty, IsPointer |-> isPointer]

PackageInfo(types, imports) == [Types |-> types, Imports |-> imports]

\* The node a pointer designates (h is the heap).
Deref(h, t) == IF t.tag = "ref" THEN h[t.id] ELSE t

(***************************************************************************)
(* The syntax trees handed over by go/parser.  Type expressions:           *)
(*   [k |-> "ident", name]  [k |-> "sel", x, sel]  [k |-> "array", elt]     *)
(*   [k |-> "map", key, value]  [k |-> "star", x]  [k |-> "other"]          *)
(*   [k |-> "struct", fields]                                               *)
(* A struct tag is the sequence of its space separated key:"value" parts,  *)
(* each value split at its commas.                                          *)
(***************************************************************************)
TIdent(n) == [k |-> "ident", name |-> n]
TSel(x, s) == [k |-> "sel", x |-> x, sel |-> s]
TArray(e) == [k |-> "array", elt |-> e]
TMap(key, v) == [k |-> "map", key |-> key, value |-> v]
TStar(x) == [k |-> "star", x |-> x]
TStruct(fs) == [k |-> "struct", fields |-> fs]
TOther == [k |-> "other"]

NoTag == <<>>
JsonTag(parts) == <<[key |-> "json", parts |-> parts]>>
AstField(names, type, tag) == [Names |-> names, Type |-> type, Tag |-> tag]
TypeSpec(name, type) == [Name |-> name, Type |-> type]
ImportSpec(path, name) == [Path |-> path, Name |-> name]

(***************************************************************************)
(* Strings.  Identifiers hold no dot and no slash; a qualified name is     *)
(* alias.Type and an import path is dir/base or a bare word.               *)
(***************************************************************************)
Idents == {"User", "Profile", "Order", "Item", "Size", "Tags", "Index", "Node",
           "Ping", "Pong", "Missing", "string", "int", "float64", "bool",
           "p", "q", "time", "Time", "c", "u", "v", "x", "n", "o", "http",
           "getThing", "JSON", "Item2"}
PathWords == {"ex", "com/p", "com/q", "com", "time", "p", "q"}

\* The strings holding a dot: word.word.
Dotted == {a \o "." \o b : a \in Idents \cup PathWords, b \in Idents \cup PathWords}

\* strings.Contains(s, ".")
ContainsDot(s) == s \in Dotted

\* strings.SplitN(name, ".", 2) of a name alias.Type
SplitTable ==
    [name \in {a \o "." \o b : a \in Idents, b \in Idents} |->
        CHOOSE parts \in Idents \X Idents : name = parts[1] \o "." \o parts[2]]
SplitQualified(name) == SplitTable[name]

\* filepath.Base
Base(path) ==
    IF \E d \in {"ex.com"}, b \in PathWords : path = d \o "/" \o b
    THEN CHOOSE b \in PathWords : \E d \in {"ex.com"} : path = d \o "/" \o b
    ELSE path

PkgP == "ex.com/p"
PkgQ == "ex.com/q"
PkgPaths == {PkgP, PkgQ}

(***************************************************************************)
(* The source trees the runs analyze.  "shop" is the sample application's  *)
(* model (User, Profile), "cross" has a record with a field of a record of *)
(* an imported package, "cyclic" has two packages importing each other,    *)
(* "recursive" has self-referential and mutually referential records,      *)
(* "twins" has two packages that each declare a record called Size.        *)
(***************************************************************************)
Worlds == {"shop", "cross", "cyclic", "recursive", "twins"}

F1(name, type) == AstField(<<name>>, type, NoTag)
FT(name, type, parts) == AstField(<<name>>, type, JsonTag(parts))

DeclUser ==
    TypeSpec("User", TStruct(<<F1("ID", TIdent("int")), F1("Name", TIdent("string")),
                               F1("Profile", TStar(TIdent("Profile")))>>))
DeclProfile ==
    TypeSpec("Profile", TStruct(<<FT("Bio", TIdent("string"), <<"Bio", "omitempty">>),
                                  F1("Skills", TArray(TIdent("string")))>>))
DeclOrder ==
    TypeSpec("Order", TStruct(<<FT("Item", TSel("q", "Item"), <<"item">>),
                                F1("Owner", TIdent("Missing"))>>))
DeclSize == TypeSpec("Size", TStruct(<<F1("W", TIdent("int"))>>))
\* Size as a second file of the same package declares it (files kept apart
\* by build constraints are all parsed).
DeclSizeWide ==
    TypeSpec("Size", TStruct(<<AstField(<<"W", "H">>, TIdent("int"), NoTag)>>))
\* A record with two fields of one record type and two fields of anonymous
\* record types.
DeclBox ==
    TypeSpec("Box", TStruct(<<F1("Min", TIdent("Size")), F1("Max", TIdent("Size")),
                              F1("Lo", TStruct(<<F1("X", TIdent("int"))>>)),
                              F1("Hi", TStruct(<<F1("Y", TIdent("string"))>>))>>))
DeclItem ==
    TypeSpec("Item", TStruct(<<F1("Name", TIdent("string")), F1("Size", TIdent("Size"))>>))
DeclTags == TypeSpec("Tags", TArray(TIdent("string")))
DeclIndex == TypeSpec("Index", TMap(TIdent("string"), TIdent("string")))
DeclNode ==
    TypeSpec("Node", TStruct(<<F1("Val", TIdent("int")), F1("Next", TStar(TIdent("Node")))>>))
DeclPing == TypeSpec("Ping", TStruct(<<F1("Pong", TStar(TIdent("Pong")))>>))
DeclPong == TypeSpec("Pong", TStruct(<<F1("Ping", TStar(TIdent("Ping")))>>))

\* The files of package path p in world w, merged: its imports and its type
\* declarations in source order.
Files(w, p) ==
    CASE w = "shop" /\ p = PkgP ->
           [Imports |-> <<ImportSpec("time", "")>>, Decls |-> <<DeclUser, DeclProfile>>]
      [] w = "shop" /\ p = PkgQ ->
           [Imports |-> <<>>, Decls |-> <<DeclIndex, DeclSize, DeclSizeWide>>]
      [] w = "cross" /\ p = PkgP ->
           [Imports |-> <<ImportSpec(PkgQ, "")>>, Decls |-> <<DeclOrder>>]
      [] w = "cross" /\ p = PkgQ ->
           [Imports |-> <<>>, Decls |-> <<DeclSize, DeclItem>>]
      [] w = "cyclic" /\ p = PkgP ->
           [Imports |-> <<ImportSpec(PkgQ, "")>>, Decls |-> <<DeclOrder>>]
      [] w = "cyclic" /\ p = PkgQ ->
           [Imports |-> <<ImportSpec(PkgP, "")>>, Decls |-> <<DeclItem>>]
      [] w = "recursive" /\ p = PkgP ->
           [Imports |-> <<>>, Decls |-> <<DeclNode, DeclPing, DeclPong>>]
      [] w = "twins" /\ p = PkgP ->
           [Imports |-> <<>>, Decls |-> <<DeclSize, DeclBox>>]
      [] w = "twins" /\ p = PkgQ ->
           [Imports |-> <<>>, Decls |-> <<DeclSizeWide>>]
      [] OTHER ->
           [Imports |-> <<>>, Decls |-> <<DeclTags>>]

(***************************************************************************)
(* The objects the operations work on, gathered in one record m:           *)
(* the registry (Packages, CurrentPackage), the nodes (heap), the          *)
(* resolver's ParsedPackages and whether the process died.                 *)
(***************************************************************************)
Mach ==
    [Packages |-> Packages, CurrentPackage |-> CurrentPackage, heap |-> heap,
     Parsed |-> ParsedPackages, crashed |-> crashed, fault |-> fault,
     log |-> <<>>]  \* the packages resolvePackageTypes was called on, in order

\* RegisterPackage making a new PackageInfo on every call.
RegisterPackage_Fresh(m, packagePath) ==
    [m EXCEPT !.Packages = Put(@, packagePath, PackageInfo(EmptyMap, EmptyMap))]

\* RegisterPackage: create the PackageInfo when absent.
RegisterPackage(m, packagePath) ==
    IF packagePath \in DOMAIN m.Packages
    THEN m
    ELSE [m EXCEPT !.Packages = Put(@, packagePath, PackageInfo(EmptyMap, EmptyMap))]

SetCurrentPackage(m, packagePath) ==
    RegisterPackage([m EXCEPT !.CurrentPackage = packagePath], packagePath)

RegisterImport(m, alias, packagePath) ==
    LET m1 == RegisterPackage(m, m.CurrentPackage)
    IN  [m1 EXCEPT !.Packages[m.CurrentPackage].Imports = Put(@, alias, packagePath)]

\* RegisterType keeping the node a name is registered with already.
RegisterType_FirstWins(m, id) ==
    LET m1 == RegisterPackage(m, m.CurrentPackage)
    IN  [m1 EXCEPT !.Packages[m.CurrentPackage].Types =
                      IF m.heap[id].Name \in DOMAIN @ THEN @ ELSE Put(@, m.heap[id].Name, id)]

\* RegisterType of the node heap[id].
RegisterType(m, id) ==
    LET m1 == RegisterPackage(m, m.CurrentPackage)
    IN  [m1 EXCEPT !.Packages[m.CurrentPackage].Types = Put(@, m.heap[id].Name, id)]

\* LookupType looking a qualified name's type up in the current package.
LookupType_CurrentOnly(m, name) ==
    LET m1 == RegisterPackage(m, m.CurrentPackage)
        pkg == m1.Packages[m1.CurrentPackage]
    IN  IF ContainsDot(name)
        THEN LET parts == SplitQualified(name)
                 pkgAlias == parts[1]
                 typeName == parts[2]
             IN  IF /\ pkgAlias \in DOMAIN pkg.Imports
                    /\ typeName \in DOMAIN pkg.Types
                 THEN [m |-> m1, t |-> Ref(pkg.Types[typeName])]
                 ELSE [m |-> m1, t |-> NilT]
        ELSE IF name \in DOMAIN pkg.Types
             THEN [m |-> m1, t |-> Ref(pkg.Types[name])]
             ELSE [m |-> m1, t |-> NilT]

\* LookupType: the registry after the call (it registers the current package)
\* and the pointer returned.
LookupType(m, name) ==
    LET m1 == RegisterPackage(m, m.CurrentPackage)
        pkg == m1.Packages[m1.CurrentPackage]
    IN  IF ContainsDot(name)
        THEN LET parts == SplitQualified(name)
                 pkgAlias == parts[1]
                 typeName == parts[2]
             IN  IF /\ pkgAlias \in DOMAIN pkg.Imports
                    /\ pkg.Imports[pkgAlias] \in DOMAIN m1.Packages
                    /\ typeName \in DOMAIN m1.Packages[pkg.Imports[pkgAlias]].Types
                 THEN [m |-> m1, t |-> Ref(m1.Packages[pkg.Imports[pkgAlias]].Types[typeName])]
                 ELSE [m |-> m1, t |-> NilT]
        ELSE IF name \in DOMAIN pkg.Types
             THEN [m |-> m1, t |-> Ref(pkg.Types[name])]
             ELSE [m |-> m1, t |-> NilT]

isBasicType(name) ==
    name \in {"bool", "int", "int8", "int16", "int32", "int64", "uint", "uint8",
              "uint16", "uint32", "uint64", "uintptr", "float32", "float64",
              "complex64", "complex128", "string", "byte", "rune", "error"}

isPointerType(expr) == expr.k = "star"

\* extractJSONTag: <<jsonName, omitempty>>.
extractJSONTag(field) ==
    LET js == {i \in DOMAIN field.Tag : field.Tag[i].key = "json"}
        parts == IF js = {} THEN <<"">>
                 ELSE field.Tag[CHOOSE i \in js : \A j \in js : i <= j].parts
    IN  IF parts = <<"">> THEN <<"", FALSE>>
        ELSE IF parts[1] = "-" THEN <<"", TRUE>>
        ELSE <<parts[1], \E i \in 2..Len(parts) : parts[i] = "omitempty">>

\* The fields an anonymous struct gets for one source field and its names.
RECURSIVE AnonNames(_, _, _, _)
AnonNames(field, fieldType, i, acc) ==
    IF i > Len(field.Names) THEN acc
    ELSE AnonNames(field, fieldType, i + 1,
            Append(acc, FieldDefinition(field.Names[i], fieldType,
                                        extractJSONTag(field)[1], extractJSONTag(field)[2],
                                        isPointerType(field.Type))))

\* TypeRegistry.ResolveType: the registry after the call and the pointer returned.
RECURSIVE ResolveType(_, _)
RECURSIVE AnonFields(_, _, _, _)
ResolveType(m, expr) ==
    CASE expr.k = "ident" ->
           IF isBasicType(expr.name)
           THEN [m |-> m, t |-> TypeDefinition(expr.name, KindBasic, <<>>, NilT, NilT, NilT,
                                               m.CurrentPackage, expr.name, TRUE)]
           ELSE LookupType(m, expr.name)
      [] expr.k = "sel" -> LookupType(m, expr.x \o "." \o expr.sel)
      [] expr.k = "array" ->
           LET r == ResolveType(m, expr.elt)
               elemType == Deref(r.m.heap, r.t)
           IN  IF r.t # NilT
               THEN [m |-> r.m,
                     t |-> TypeDefinition("[]" \o elemType.Name, KindArray, <<>>, r.t, NilT, NilT,
                                          m.CurrentPackage, "", elemType.IsResolved)]
               ELSE [m |-> r.m, t |-> NilT]
      [] expr.k = "map" ->
           LET rk == ResolveType(m, expr.key)
               rv == ResolveType(rk.m, expr.value)
               keyType == Deref(rv.m.heap, rk.t)
               valueType == Deref(rv.m.heap, rv.t)
           IN  IF rk.t # NilT /\ rv.t # NilT
               THEN [m |-> rv.m,
                     t |-> TypeDefinition("map[" \o keyType.Name \o "]" \o valueType.Name,
                                          KindMap, <<>>, NilT, rk.t, rv.t, m.CurrentPackage, "",
                                          keyType.IsResolved /\ valueType.IsResolved)]
               ELSE [m |-> rv.m, t |-> NilT]
      [] expr.k = "star" ->
           LET r == ResolveType(m, expr.x)
               elemType == Deref(r.m.heap, r.t)
           IN  IF r.t # NilT
               THEN [m |-> r.m,
                     t |-> TypeDefinition("*" \o elemType.Name, KindPointer, <<>>, r.t, NilT, NilT,
                                          m.CurrentPackage, "", elemType.IsResolved)]
               ELSE [m |-> r.m, t |-> NilT]
      [] expr.k = "struct" ->
           AnonFields(m, expr.fields, 1,
                      TypeDefinition("anonymous", KindStruct, <<>>, NilT, NilT, NilT,
                                     m.CurrentPackage, "", TRUE))
      [] OTHER -> [m |-> m, t |-> NilT]

\* The field loop of ResolveType's anonymous struct case.
AnonFields(m, fields, i, structDef) ==
    IF i > Len(fields) THEN [m |-> m, t |-> structDef]
    ELSE LET r == ResolveType(m, fields[i].Type)
         IN  IF r.t = NilT
             THEN AnonFields(r.m, fields, i + 1, [structDef EXCEPT !.IsResolved = FALSE])
             ELSE AnonFields(r.m, fields, i + 1,
                    [structDef EXCEPT !.Fields = AnonNames(fields[i], r.t, 1, @)])

(***************************************************************************)
(* TypeCollector (collection).                                              *)
(***************************************************************************)
\* The alias an import is registered under: the explicit one, else the last
\* part of the path.
ImportAlias(imp) == IF imp.Name # "" THEN imp.Name ELSE Base(imp.Path)

RECURSIVE TC_collectImports(_, _, _)
TC_collectImports(m, imports, i) ==
    IF i > Len(imports) THEN m
    ELSE TC_collectImports(RegisterImport(m, ImportAlias(imports[i]), imports[i].Path),
                           imports, i + 1)

\* The fields of a collected struct: one per name, type deferred (nil).
RECURSIVE TC_fieldNames(_, _, _)
\* One FieldDefinition for a field declaration, whatever names it lists.
TC_fieldNames_FirstName(field, i, acc) ==
    IF Len(field.Names) = 0 THEN acc
    ELSE Append(acc, FieldDefinition(field.Names[1], NilT, extractJSONTag(field)[1],
                                     extractJSONTag(field)[2], isPointerType(field.Type)))

TC_fieldNames(field, i, acc) ==
    IF i > Len(field.Names) THEN acc
    ELSE TC_fieldNames(field, i + 1,
            Append(acc, FieldDefinition(field.Names[i], NilT, extractJSONTag(field)[1],
                                        extractJSONTag(field)[2], isPointerType(field.Type))))

RECURSIVE TC_fields(_, _, _)
TC_fields(fields, i, acc) ==
    IF i > Len(fields) THEN acc
    ELSE TC_fields(fields, i + 1, TC_fieldNames(fields[i], 1, acc))

\* Allocate a node and register it in the current package.
NewRegistered(m, node) ==
    RegisterType([m EXCEPT !.heap = Append(@, node)], Len(m.heap) + 1)

\* TypeCollector.processTypeDeclaration: a struct is registered with no
\* fields, then its fields are appended to the registered node.
TC_processTypeDeclaration(m, typeSpec) ==
    CASE typeSpec.Type.k = "struct" ->
           [NewRegistered(m, TypeDefinition(typeSpec.Name, KindStruct, <<>>, NilT, NilT, NilT,
                                            m.CurrentPackage, "", FALSE))
               EXCEPT !.heap[Len(m.heap) + 1].Fields = TC_fields(typeSpec.Type.fields, 1, <<>>)]
      [] typeSpec.Type.k = "array" ->
           NewRegistered(m, TypeDefinition(typeSpec.Name, KindArray, <<>>, NilT, NilT, NilT,
                                           m.CurrentPackage, "", FALSE))
      [] typeSpec.Type.k = "map" ->
           NewRegistered(m, TypeDefinition(typeSpec.Name, KindMap, <<>>, NilT, NilT, NilT,
                                           m.CurrentPackage, "", FALSE))
      [] OTHER ->
           NewRegistered(m, TypeDefinition(typeSpec.Name, KindBasic, <<>>, NilT, NilT, NilT,
                                           m.CurrentPackage, "", TRUE))

RECURSIVE TC_collectTypeDeclarations(_, _, _)
TC_collectTypeDeclarations(m, decls, i) ==
    IF i > Len(decls) THEN m
    ELSE TC_collectTypeDeclarations(TC_processTypeDeclaration(m, decls[i]), decls, i + 1)

\* TypeCollector.CollectTypes(files, packagePath)
TC_CollectTypes(m, files, packagePath) ==
    TC_collectTypeDeclarations(
        TC_collectImports(SetCurrentPackage(m, packagePath), files.Imports, 1),
        files.Decls, 1)

(***************************************************************************)
(* PackageResolver (collection): ScanPackage reads the package directory   *)
(* from disk and scans the packages it imports.                             *)
(***************************************************************************)
\* One name of a field: resolve the declared type, append the field to heap[id].
RECURSIVE PR_fieldNames(_, _, _, _)
PR_fieldNames(m, id, field, i) ==
    IF i > Len(field.Names) THEN m
    ELSE With(ResolveType(m, field.Type),
              LAMBDA r :
                 With([r.m EXCEPT !.heap[id].Fields =
                          Append(@, FieldDefinition(field.Names[i], r.t,
                                                    extractJSONTag(field)[1],
                                                    extractJSONTag(field)[2],
                                                    isPointerType(field.Type)))],
                      LAMBDA m1 :
                         IF m1.crashed THEN m1 ELSE PR_fieldNames(m1, id, field, i + 1)))

RECURSIVE PR_fields(_, _, _, _)
PR_fields(m, id, fields, i) ==
    IF i > Len(fields) THEN m
    ELSE With(PR_fieldNames(m, id, fields[i], 1),
              LAMBDA m1 : IF m1.crashed THEN m1 ELSE PR_fields(m1, id, fields, i + 1))

\* PackageResolver.processTypeDeclaration: structs only; the node carries
\* packagePath and is registered in the registry's current package.
PR_processTypeDeclaration(m, typeSpec, packagePath) ==
    IF typeSpec.Type.k = "struct"
    THEN PR_fields(NewRegistered(m, TypeDefinition(typeSpec.Name, KindStruct, <<>>, NilT, NilT,
                                                   NilT, packagePath, "", FALSE)),
                   Len(m.heap) + 1, typeSpec.Type.fields, 1)
    ELSE m

RECURSIVE PR_collectTypes(_, _, _, _)
PR_collectTypes(m, decls, i, packagePath) ==
    IF i > Len(decls) THEN m
    ELSE With(PR_processTypeDeclaration(m, decls[i], packagePath),
              LAMBDA m1 :
                 IF m1.crashed THEN m1 ELSE PR_collectTypes(m1, decls, i + 1, packagePath))

RECURSIVE PR_ScanPackage(_, _, _)
RECURSIVE PR_collectImports(_, _, _, _)
\* PackageResolver.ScanPackage(packagePath) on the source tree w.
PR_ScanPackage(m, w, packagePath) ==
    IF packagePath \in m.Parsed THEN m
    ELSE LET m1 == [m EXCEPT !.Parsed = @ \cup {packagePath}]
         IN  IF packagePath \notin PkgPaths
             THEN m1     \* the directory does not exist: an error is returned
             ELSE With(PR_collectImports(SetCurrentPackage(m1, packagePath), w,
                                         Files(w, packagePath).Imports, 1),
                       LAMBDA m2 :
                          IF m2.crashed THEN m2
                          ELSE PR_collectTypes(m2, Files(w, packagePath).Decls, 1,
                                               packagePath))

\* PackageResolver.collectImports: register each non-standard import and scan it.
PR_collectImports(m, w, imports, i) ==
    IF i > Len(imports) THEN m
    ELSE IF ~ContainsDot(imports[i].Path)
         THEN PR_collectImports(m, w, imports, i + 1)
         ELSE With(PR_ScanPackage(RegisterImport(m, ImportAlias(imports[i]),
                                                 imports[i].Path),
                                  w, imports[i].Path),
                   LAMBDA m1 :
                      IF m1.crashed THEN m1 ELSE PR_collectImports(m1, w, imports, i + 1))

(***************************************************************************)
(* Resolution.  Go iterates a map in an unspecified order: the resolvers   *)
(* take the order o they visit the packages (o.pkgs) and the types of each *)
(* package (o.types[p]) in.                                                 *)
(***************************************************************************)
RECURSIVE PermsOf(_)
PermsOf(S) == IF S = {} THEN {<<>>}
              ELSE UNION {{<<x>> \o s : s \in PermsOf(S \ {x})} : x \in S}

Orders(Pk) ==
    LET typeOrders == {f \in [DOMAIN Pk -> UNION {PermsOf(DOMAIN Pk[p].Types) : p \in DOMAIN Pk}] :
                          \A p \in DOMAIN Pk : Range(f[p]) = DOMAIN Pk[p].Types}
    IN  {[pkgs |-> ps, types |-> f] : ps \in PermsOf(DOMAIN Pk), f \in typeOrders}

TypesOf(o, p) == IF p \in DOMAIN o.types THEN o.types[p] ELSE <<>>

\* Write node through the pointer t: into the heap, or into the owned node.
SetNode(m, t, node) ==
    IF t.tag = "ref" THEN [m |-> [m EXCEPT !.heap[t.id] = node], t |-> t]
    ELSE [m |-> m, t |-> node]

Overflow(m, where) == [m EXCEPT !.crashed = TRUE, !.fault = where]

\* The call stack of a recursive function: the pointers to registered nodes
\* (or the packages) its unfinished calls were made on.  Each of these
\* functions returns early on a mark it sets only when it is about to
\* return, so a call on what an unfinished call is working on finds the
\* mark unset, does what that call did and arrives at the same call again:
\* the recursion never returns and the process dies of stack overflow.
OnStack(stk, frame) == \E i \in DOMAIN stk : stk[i] = frame
Reenters(stk, t) == t.tag = "ref" /\ OnStack(stk, t)
Push(stk, t) == IF t.tag = "ref" THEN Append(stk, t) ELSE stk
\* The same for a function that is called with a package path as well.
ReentersIn(stk, t, pkgPath) == t.tag = "ref" /\ OnStack(stk, <<t, pkgPath>>)
PushIn(stk, t, pkgPath) == IF t.tag = "ref" THEN Append(stk, <<t, pkgPath>>) ELSE stk

\* The placeholder TypeCollector.resolveType puts where a type is to be resolved.
TC_Placeholder(pkg) ==
    TypeDefinition("string", KindBasic, <<>>, NilT, NilT, NilT, pkg, "string", TRUE)

\* A field loop that leaves every field as it finds it.
TC_resolveFields_KeepNil(m, id, i) == m

\* The field loop of TypeCollector.resolveType on heap[id].
RECURSIVE TC_resolveFields(_, _, _)
TC_resolveFields(m, id, i) ==
    IF i > Len(m.heap[id].Fields) THEN m
    ELSE LET ft == m.heap[id].Fields[i].Type
         IN  IF ft # NilT /\ Deref(m.heap, ft).IsResolved
             THEN TC_resolveFields(m, id, i + 1)
             ELSE TC_resolveFields(
                      [m EXCEPT !.heap[id].Fields[i].Type = TC_Placeholder(m.heap[id].Package)],
                      id, i + 1)

\* A resolveType without the early return, which gives a record one more
\* copy of its last field each time it is called.
TC_resolveType_Regrow(m, id) ==
    [m EXCEPT !.heap[id].Fields = IF Len(@) > 0 THEN Append(@, @[Len(@)]) ELSE @,
              !.heap[id].IsResolved = TRUE]

\* TypeCollector.resolveType on heap[id].
TC_resolveType(m, id) ==
    LET typeDef == m.heap[id]
        ph == TC_Placeholder(typeDef.Package)
    IN  IF typeDef.IsResolved THEN m
        ELSE LET m1 ==
                   CASE typeDef.Kind = KindStruct -> TC_resolveFields(m, id, 1)
                     [] typeDef.Kind = KindArray -> [m EXCEPT !.heap[id].ElementType = ph]
                     [] typeDef.Kind = KindMap ->
                          [m EXCEPT !.heap[id].KeyType = ph, !.heap[id].ValueType = ph]
                     [] OTHER -> m
             IN  [m1 EXCEPT !.heap[id].IsResolved = TRUE]

RECURSIVE TC_resolveAll(_, _, _, _)
TC_resolveAll(m, types, names, i) ==
    IF i > Len(names) THEN m
    ELSE TC_resolveAll(TC_resolveType(m, types[names[i]]), types, names, i + 1)

\* TypeCollector.ResolveTypes
RECURSIVE TC_ResolveTypesFrom(_, _, _)
TC_ResolveTypesFrom(m, o, i) ==
    IF i > Len(o.pkgs) THEN m
    ELSE TC_ResolveTypesFrom(
             TC_resolveAll(SetCurrentPackage(m, o.pkgs[i]), m.Packages[o.pkgs[i]].Types,
                           TypesOf(o, o.pkgs[i]), 1),
             o, i + 1)

TC_ResolveTypes(m, o) == TC_ResolveTypesFrom(m, o, 1)

(***************************************************************************)
(* PackageResolver.ResolvePackages.  d is the call stack: a call that      *)
(* re-enters what an unfinished call is working on never returns, and      *)
(* ends the process with a stack overflow.                                  *)
(***************************************************************************)
RECURSIVE PR_resolveType(_, _, _)
RECURSIVE PR_resolveFields(_, _, _, _)
\* A resolveType that neither walks nor marks a record.
PR_resolveType_Unmarked(m, t, d) ==
    IF Deref(m.heap, t).Kind = KindStruct THEN [m |-> m, t |-> t]
    ELSE SetNode(m, t, [Deref(m.heap, t) EXCEPT !.IsResolved = TRUE])

\* PackageResolver.resolveType: the objects after the call and the pointer t
\* (changed when it is an owned node).
PR_resolveType(m, t, d) ==
    IF m.crashed THEN [m |-> m, t |-> t]
    ELSE LET typeDef == Deref(m.heap, t)
         IN  IF typeDef.IsResolved THEN [m |-> m, t |-> t]
             ELSE IF Reenters(d, t)
             THEN [m |-> Overflow(m, "PackageResolver.resolveType"), t |-> t]
             ELSE LET r ==
                        CASE typeDef.Kind = KindStruct -> PR_resolveFields(m, t, 1, Push(d, t))
                          [] typeDef.Kind \in {KindArray, KindPointer} ->
                               IF typeDef.ElementType = NilT THEN [m |-> m, t |-> t]
                               ELSE LET e == PR_resolveType(m, typeDef.ElementType, Push(d, t))
                                    IN  SetNode(e.m, t, [Deref(e.m.heap, t) EXCEPT
                                                            !.ElementType = e.t])
                          [] typeDef.Kind = KindMap ->
                               LET k == IF typeDef.KeyType = NilT THEN [m |-> m, t |-> NilT]
                                        ELSE PR_resolveType(m, typeDef.KeyType, Push(d, t))
                                   v == IF typeDef.ValueType = NilT THEN [m |-> k.m, t |-> NilT]
                                        ELSE PR_resolveType(k.m, typeDef.ValueType, Push(d, t))
                               IN  SetNode(v.m, t, [Deref(v.m.heap, t) EXCEPT
                                                       !.KeyType = k.t, !.ValueType = v.t])
                          [] OTHER -> [m |-> m, t |-> t]
                  IN  IF r.m.crashed THEN r
                      ELSE SetNode(r.m, r.t, [Deref(r.m.heap, r.t) EXCEPT !.IsResolved = TRUE])

\* The field loop of PackageResolver.resolveType.
PR_resolveFields(m, t, i, d) ==
    IF m.crashed \/ i > Len(Deref(m.heap, t).Fields) THEN [m |-> m, t |-> t]
    ELSE LET ft == Deref(m.heap, t).Fields[i].Type
         IN  IF ft = NilT THEN PR_resolveFields(m, t, i + 1, d)
             ELSE LET r == PR_resolveType(m, ft, d)
                      s == SetNode(r.m, t, [Deref(r.m.heap, t) EXCEPT !.Fields[i].Type = r.t])
                  IN  PR_resolveFields(s.m, s.t, i + 1, d)

\* buildPackageDependencies: the non-standard imports of each package, in
\* the order o visits packages in.
RECURSIVE SeqOfSet(_, _, _)
SeqOfSet(S, order, i) ==
    IF i > Len(order) THEN <<>>
    ELSE (IF order[i] \in S THEN <<order[i]>> ELSE <<>>) \o SeqOfSet(S, order, i + 1)

AllPathsOrder(o) == o.pkgs \o SeqOfSet(PkgPaths \ Range(o.pkgs), <<PkgP, PkgQ>>, 1)

buildPackageDependencies(m, o) ==
    [p \in DOMAIN m.Packages |->
        SeqOfSet({m.Packages[p].Imports[a] : a \in {b \in DOMAIN m.Packages[p].Imports :
                                                      ContainsDot(m.Packages[p].Imports[b])}},
                 AllPathsOrder(o), 1)]

RECURSIVE PR_resolveTypesOf(_, _, _, _, _)
PR_resolveTypesOf(m, types, names, i, d) ==
    IF m.crashed \/ i > Len(names) THEN m
    ELSE PR_resolveTypesOf(PR_resolveType(m, Ref(types[names[i]]), d).m,
                           types, names, i + 1, d)

\* resolvePackageTypes
resolvePackageTypes(m, pkgPath, o, d) ==
    LET m1 == [SetCurrentPackage(m, pkgPath) EXCEPT !.log = Append(@, pkgPath)]
    IN  PR_resolveTypesOf(m1, m1.Packages[pkgPath].Types, TypesOf(o, pkgPath), 1, d)

RECURSIVE resolvePackageDependencies(_, _, _, _, _, _)
RECURSIVE resolveDeps(_, _, _, _, _, _)
\* resolvePackageDependencies resolving the package's own types before the
\* types of the packages it depends on.
resolvePackageDependencies_SelfFirst(m, pkgPath, dependencies, resolved, o, d) ==
    IF m.crashed THEN [m |-> m, resolved |-> resolved]
    ELSE IF pkgPath \in resolved THEN [m |-> m, resolved |-> resolved]
    ELSE IF OnStack(d, pkgPath)
    THEN [m |-> Overflow(m, "resolvePackageDependencies"), resolved |-> resolved]
    ELSE resolveDeps(resolvePackageTypes(m, pkgPath, o, <<>>),
                     IF pkgPath \in DOMAIN dependencies THEN dependencies[pkgPath] ELSE <<>>,
                     1, dependencies, resolved \cup {pkgPath}, <<o, Append(d, pkgPath)>>)

\* resolvePackageDependencies: [m, resolved] after the call.
resolvePackageDependencies(m, pkgPath, dependencies, resolved, o, d) ==
    IF m.crashed THEN [m |-> m, resolved |-> resolved]
    ELSE IF pkgPath \in resolved THEN [m |-> m, resolved |-> resolved]
    ELSE IF OnStack(d, pkgPath)
    THEN [m |-> Overflow(m, "resolvePackageDependencies"), resolved |-> resolved]
    ELSE LET deps == IF pkgPath \in DOMAIN dependencies THEN dependencies[pkgPath] ELSE <<>>
             r == resolveDeps(m, deps, 1, dependencies, resolved, <<o, Append(d, pkgPath)>>)
         IN  IF r.m.crashed THEN r
             ELSE [m |-> resolvePackageTypes(r.m, pkgPath, o, <<>>),
                   resolved |-> r.resolved \cup {pkgPath}]

\* The loop over a package's dependencies.
resolveDeps(m, deps, i, dependencies, resolved, od) ==
    IF m.crashed \/ i > Len(deps) THEN [m |-> m, resolved |-> resolved]
    ELSE LET r == resolvePackageDependencies(m, deps[i], dependencies, resolved, od[1], od[2])
         IN  resolveDeps(r.m, deps, i + 1, dependencies, r.resolved, od)

RECURSIVE PR_ResolvePackagesFrom(_, _, _, _, _)
PR_ResolvePackagesFrom(m, dependencies, resolved, o, i) ==
    IF m.crashed \/ i > Len(o.pkgs) THEN m
    ELSE LET r == resolvePackageDependencies(m, o.pkgs[i], dependencies, resolved, o, <<>>)
         IN  PR_ResolvePackagesFrom(r.m, dependencies, r.resolved, o, i + 1)

\* PackageResolver.ResolvePackages
PR_ResolvePackages(m, o) ==
    PR_ResolvePackagesFrom(m, buildPackageDependencies(m, o), {}, o, 1)

(***************************************************************************)
(* StructFieldAnalyzer.AnalyzeStructFields                                  *)
(***************************************************************************)
\* The placeholder analyzeField puts in a field without a type.
UnknownPlaceholder(pkg) ==
    TypeDefinition("unknown", KindBasic, <<>>, NilT, NilT, NilT, pkg, "unknown", TRUE)

RECURSIVE analyzeStructType(_, _, _)
RECURSIVE analyzeField(_, _, _, _)
RECURSIVE analyzeFields(_, _, _, _)
\* analyzeStructType: the objects after the call and the pointer t.
analyzeStructType(m, t, d) ==
    IF m.crashed THEN [m |-> m, t |-> t]
    ELSE IF Deref(m.heap, t).IsResolved THEN [m |-> m, t |-> t]
    ELSE IF Reenters(d, t) THEN [m |-> Overflow(m, "analyzeStructType"), t |-> t]
    ELSE LET r == analyzeFields(m, t, 1, Push(d, t))
         IN  IF r.m.crashed THEN r
             ELSE SetNode(r.m, r.t, [Deref(r.m.heap, r.t) EXCEPT !.IsResolved = TRUE])

analyzeFields(m, t, i, d) ==
    IF m.crashed \/ i > Len(Deref(m.heap, t).Fields) THEN [m |-> m, t |-> t]
    ELSE LET r == analyzeField(m, t, i, d)
         IN  analyzeFields(r.m, r.t, i + 1, d)

\* analyzeField on field i of the struct t points at.
analyzeField(m, t, i, d) ==
    LET parentType == Deref(m.heap, t)
        ft == parentType.Fields[i].Type
        fieldType == Deref(m.heap, ft)
        \* store the (possibly changed) field type back into the parent
        Back(r) == SetNode(r.m, t, [Deref(r.m.heap, t) EXCEPT !.Fields[i].Type = r.t])
        \* store the (possibly changed) element or value back into the field type
        BackIn(r, which) ==
            Back(SetNode(r.m, ft,
                         IF which = "value"
                         THEN [Deref(r.m.heap, ft) EXCEPT !.ValueType = r.t]
                         ELSE [Deref(r.m.heap, ft) EXCEPT !.ElementType = r.t]))
    IN  IF ft # NilT /\ fieldType.IsResolved THEN [m |-> m, t |-> t]
        ELSE IF ft = NilT
        THEN SetNode(m, t, [parentType EXCEPT
                               !.Fields[i].Type = UnknownPlaceholder(parentType.Package)])
        ELSE CASE fieldType.Kind = KindStruct -> Back(analyzeStructType(m, ft, d))
               [] /\ fieldType.Kind \in {KindArray, KindPointer}
                  /\ fieldType.ElementType # NilT
                  /\ Deref(m.heap, fieldType.ElementType).Kind = KindStruct ->
                       BackIn(analyzeStructType(m, fieldType.ElementType, d), "element")
               [] /\ fieldType.Kind = KindMap
                  /\ fieldType.ValueType # NilT
                  /\ Deref(m.heap, fieldType.ValueType).Kind = KindStruct ->
                       BackIn(analyzeStructType(m, fieldType.ValueType, d), "value")
               [] OTHER -> [m |-> m, t |-> t]

RECURSIVE analyzeStructsOf(_, _, _, _)
analyzeStructsOf(m, types, names, i) ==
    IF m.crashed \/ i > Len(names) THEN m
    ELSE IF m.heap[types[names[i]]].Kind = KindStruct
         THEN analyzeStructsOf(analyzeStructType(m, Ref(types[names[i]]), <<>>).m,
                               types, names, i + 1)
         ELSE analyzeStructsOf(m, types, names, i + 1)

RECURSIVE AnalyzeStructFieldsFrom(_, _, _)
AnalyzeStructFieldsFrom(m, o, i) ==
    IF m.crashed \/ i > Len(o.pkgs) THEN m
    ELSE AnalyzeStructFieldsFrom(
             analyzeStructsOf(SetCurrentPackage(m, o.pkgs[i]), m.Packages[o.pkgs[i]].Types,
                              TypesOf(o, o.pkgs[i]), 1),
             o, i + 1)

AnalyzeStructFields(m, o) == AnalyzeStructFieldsFrom(m, o, 1)

(***************************************************************************)
(* StructFieldAnalyzer.AnalyzeNestedStructs.  A traversal is the record    *)
(* [visited, entered]: the visited map and the keys the traversal went     *)
(* into, in order (what the verbose run prints).  typeKey is "pkg.name";   *)
(* the name of a struct holds no dot, so the pair <<pkg, name>> stands for *)
(* it.                                                                      *)
(***************************************************************************)
typeKey(typeDef) == <<typeDef.Package, typeDef.Name>>

RECURSIVE analyzeNestedStructs(_, _, _)
RECURSIVE nestedFields(_, _, _, _)
\* analyzeNestedStructs handing each nested call a copy of visited.
analyzeNestedStructs_CopiedMap(h, t, s) ==
    IF typeKey(Deref(h, t)) \in s.visited THEN s
    ELSE [visited |-> s.visited,
          entered |-> nestedFields(h, Deref(h, t).Fields, 1,
                                   [visited |-> s.visited \cup {typeKey(Deref(h, t))},
                                    entered |-> Append(s.entered, typeKey(Deref(h, t)))]).entered]

\* analyzeNestedStructs(typeDef, visited) on the node t points at.
analyzeNestedStructs(h, t, s) ==
    IF typeKey(Deref(h, t)) \in s.visited THEN s
    ELSE nestedFields(h, Deref(h, t).Fields, 1,
                      [visited |-> s.visited \cup {typeKey(Deref(h, t))},
                       entered |-> Append(s.entered, typeKey(Deref(h, t)))])

\* The struct a field type leads to: itself, its element or its value.
nestedStructOf(h, type) ==
    IF type = NilT THEN NilT
    ELSE CASE Deref(h, type).Kind = KindStruct -> type
           [] Deref(h, type).Kind \in {KindArray, KindPointer} ->
                IF /\ Deref(h, type).ElementType # NilT
                   /\ Deref(h, Deref(h, type).ElementType).Kind = KindStruct
                THEN Deref(h, type).ElementType ELSE NilT
           [] Deref(h, type).Kind = KindMap ->
                IF /\ Deref(h, type).ValueType # NilT
                   /\ Deref(h, Deref(h, type).ValueType).Kind = KindStruct
                THEN Deref(h, type).ValueType ELSE NilT
           [] OTHER -> NilT

\* The loop over the fields of a struct.
nestedFields(h, fields, i, s) ==
    IF i > Len(fields) THEN s
    ELSE nestedFields(h, fields, i + 1,
                      IF nestedStructOf(h, fields[i].Type) = NilT THEN s
                      ELSE analyzeNestedStructs(h, nestedStructOf(h, fields[i].Type), s))

RECURSIVE nestedStructsOf(_, _, _, _)
\* The loop over the types of a package: a new visited map for each struct.
nestedStructsOf(m, types, names, i) ==
    IF i > Len(names) THEN m
    ELSE IF m.heap[types[names[i]]].Kind = KindStruct
         THEN nestedStructsOf(
                  [m EXCEPT !.log = Append(@, analyzeNestedStructs(
                                                 m.heap, Ref(types[names[i]]),
                                                 [visited |-> {}, entered |-> <<>>]).entered)],
                  types, names, i + 1)
         ELSE nestedStructsOf(m, types, names, i + 1)

RECURSIVE AnalyzeNestedStructsFrom(_, _, _)
AnalyzeNestedStructsFrom(m, o, i) ==
    IF i > Len(o.pkgs) THEN m
    ELSE AnalyzeNestedStructsFrom(
             nestedStructsOf(SetCurrentPackage(m, o.pkgs[i]), m.Packages[o.pkgs[i]].Types,
                             TypesOf(o, o.pkgs[i]), 1),
             o, i + 1)

AnalyzeNestedStructs(m, o) == AnalyzeNestedStructsFrom(m, o, 1)

(***************************************************************************)
(* PackageResolver.ResolveImportedTypes                                     *)
(***************************************************************************)
\* findImportedType
findImportedType(m, typeName, imports) ==
    IF ContainsDot(typeName)
    THEN LET parts == SplitQualified(typeName)
         IN  IF /\ parts[1] \in DOMAIN imports
                /\ imports[parts[1]] \in DOMAIN m.Packages
                /\ parts[2] \in DOMAIN m.Packages[imports[parts[1]]].Types
             THEN Ref(m.Packages[imports[parts[1]]].Types[parts[2]])
             ELSE NilT
    ELSE NilT

RECURSIVE resolveImportedType(_, _, _, _)
RECURSIVE resolveImportedFields(_, _, _, _, _)
\* resolveImportedType(typeDef, pkgPath, typeName): the objects after the
\* call and the pointer t.
resolveImportedType(m, t, pkgPath, d) ==
    IF m.crashed THEN [m |-> m, t |-> t]
    ELSE LET typeDef == Deref(m.heap, t)
             here == PushIn(d, t, pkgPath)
             Sub(c) == resolveImportedType(m, c, Deref(m.heap, c).Package, here)
             Todo(c) == c # NilT /\ ~Deref(m.heap, c).IsResolved
         IN  IF typeDef.IsResolved \/ pkgPath \notin DOMAIN m.Packages THEN [m |-> m, t |-> t]
             ELSE IF ReentersIn(d, t, pkgPath)
             THEN [m |-> Overflow(m, "resolveImportedType"), t |-> t]
             ELSE LET r ==
                        CASE typeDef.Kind = KindStruct ->
                               resolveImportedFields(m, t, 1, m.Packages[pkgPath].Imports, here)
                          [] typeDef.Kind \in {KindArray, KindPointer} /\ Todo(typeDef.ElementType) ->
                               LET e == Sub(typeDef.ElementType)
                               IN  SetNode(e.m, t, [Deref(e.m.heap, t) EXCEPT !.ElementType = e.t])
                          [] typeDef.Kind = KindMap ->
                               LET k == IF Todo(typeDef.KeyType) THEN Sub(typeDef.KeyType)
                                        ELSE [m |-> m, t |-> typeDef.KeyType]
                                   v == IF Todo(typeDef.ValueType)
                                        THEN resolveImportedType(k.m, typeDef.ValueType,
                                                 Deref(m.heap, typeDef.ValueType).Package, here)
                                        ELSE [m |-> k.m, t |-> typeDef.ValueType]
                               IN  SetNode(v.m, t, [Deref(v.m.heap, t) EXCEPT
                                                       !.KeyType = k.t, !.ValueType = v.t])
                          [] OTHER -> [m |-> m, t |-> t]
                  IN  IF r.m.crashed THEN r
                      ELSE SetNode(r.m, r.t, [Deref(r.m.heap, r.t) EXCEPT !.IsResolved = TRUE])

\* The field loop of resolveImportedType.
resolveImportedFields(m, t, i, imports, d) ==
    IF m.crashed \/ i > Len(Deref(m.heap, t).Fields) THEN [m |-> m, t |-> t]
    ELSE LET field == Deref(m.heap, t).Fields[i]
         IN  IF field.Type = NilT
             THEN LET fieldType == findImportedType(m, field.Name, imports)
                      s == IF fieldType # NilT
                           THEN SetNode(m, t, [Deref(m.heap, t) EXCEPT !.Fields[i].Type = fieldType])
                           ELSE [m |-> m, t |-> t]
                  IN  resolveImportedFields(s.m, s.t, i + 1, imports, d)
             ELSE IF ~Deref(m.heap, field.Type).IsResolved
             THEN LET r == resolveImportedType(m, field.Type,
                                               Deref(m.heap, field.Type).Package, d)
                      s == SetNode(r.m, t, [Deref(r.m.heap, t) EXCEPT !.Fields[i].Type = r.t])
                  IN  resolveImportedFields(s.m, s.t, i + 1, imports, d)
             ELSE resolveImportedFields(m, t, i + 1, imports, d)

RECURSIVE resolveImportedOf(_, _, _, _, _)
resolveImportedOf(m, types, names, i, pkgPath) ==
    IF m.crashed \/ i > Len(names) THEN m
    ELSE IF ~m.heap[types[names[i]]].IsResolved
         THEN resolveImportedOf(resolveImportedType(m, Ref(types[names[i]]), pkgPath, <<>>).m,
                                types, names, i + 1, pkgPath)
         ELSE resolveImportedOf(m, types, names, i + 1, pkgPath)

RECURSIVE ResolveImportedTypesFrom(_, _, _)
ResolveImportedTypesFrom(m, o, i) ==
    IF m.crashed \/ i > Len(o.pkgs) THEN m
    ELSE ResolveImportedTypesFrom(
             resolveImportedOf(SetCurrentPackage(m, o.pkgs[i]), m.Packages[o.pkgs[i]].Types,
                               TypesOf(o, o.pkgs[i]), 1, o.pkgs[i]),
             o, i + 1)

ResolveImportedTypes(m, o) == ResolveImportedTypesFrom(m, o, 1)

(***************************************************************************)
(* Function bodies.  Expressions:                                           *)
(*   [k |-> "ident", name]  [k |-> "selector", x, sel]  [k |-> "call", fun, *)
(*   args]  [k |-> "unary", op, x]  [k |-> "composite", type]               *)
(*   [k |-> "lit", kind, value]  [k |-> "index", x, index]                  *)
(* Statements: [k |-> "assign", tok, Lhs, Rhs], [k |-> "var", Names, Type,  *)
(* Values], [k |-> "expr", x], [k |-> "return", x].                         *)
(***************************************************************************)
EIdent(n) == [k |-> "ident", name |-> n]
ESel(x, s) == [k |-> "selector", x |-> x, sel |-> s]
ECall(f, args) == [k |-> "call", fun |-> f, args |-> args]
EAddr(x) == [k |-> "unary", op |-> "&", x |-> x]
EComposite(type) == [k |-> "composite", type |-> type]
ELit(kind, value) == [k |-> "lit", kind |-> kind, value |-> value]
EIndex(x, index) == [k |-> "index", x |-> x, index |-> index]

SAssign(tok, lhs, rhs) == [k |-> "assign", tok |-> tok, Lhs |-> lhs, Rhs |-> rhs]
SVar(names, type, values) == [k |-> "var", Names |-> names, Type |-> type, Values |-> values]
SExpr(x) == [k |-> "expr", x |-> x]
SReturn(x) == [k |-> "return", x |-> x]

Param(names, type) == [Names |-> names, Type |-> type]
FuncDecl(params, body) == [Params |-> params, Body |-> body]

\* c.JSON(status, x)
JSONCall(status, x) == ECall(ESel(EIdent("c"), "JSON"), <<status, x>>)
Ctx == Param(<<"c">>, TSel("echo", "Context"))

\* The handlers of the source trees.
Funcs(w) ==
    CASE w = "shop" -> {"getUser", "swap", "getAny", "pair", "getProfile", "rebind", "listUsers"}
      [] w \in {"cross", "cyclic"} -> {"getOrder"}
      [] w = "twins" -> {"getSize", "getBox"}
      [] OTHER -> {"getNode", "getTags"}

Func(f) ==
    CASE f = "getUser" ->
           FuncDecl(<<Ctx>>,
                    <<SAssign(":=", <<EIdent("u")>>, <<EComposite(TIdent("User"))>>),
                      SReturn(JSONCall(ESel(EIdent("http"), "StatusOK"), EIdent("u")))>>)
      [] f = "getSize" ->     \* a handler of package p
           FuncDecl(<<Ctx>>,
                    <<SAssign(":=", <<EIdent("s")>>, <<EComposite(TIdent("Size"))>>),
                      SReturn(JSONCall(ESel(EIdent("http"), "StatusOK"), EIdent("s")))>>)
      [] f = "getBox" ->
           FuncDecl(<<Ctx>>,
                    <<SAssign(":=", <<EIdent("b")>>, <<EComposite(TIdent("Box"))>>),
                      SReturn(JSONCall(ESel(EIdent("http"), "StatusOK"), EIdent("b")))>>)
      [] f = "swap" ->
           FuncDecl(<<Ctx>>,
                    <<SAssign(":=", <<EIdent("v")>>, <<EComposite(TIdent("User"))>>),
                      SExpr(JSONCall(ELit("INT", 200), EIdent("v"))),
                      SAssign("=", <<EIdent("v")>>, <<EComposite(TIdent("Profile"))>>)>>)
      [] f = "getAny" ->
           FuncDecl(<<Ctx>>,
                    <<SAssign(":=", <<EIdent("x")>>,
                              <<ECall(ESel(EIdent("c"), "Get"), <<ELit("STRING", "k")>>)>>),
                      SReturn(JSONCall(ELit("INT", 201), EIdent("x")))>>)
      [] f = "getOrder" ->
           FuncDecl(<<Ctx>>,
                    <<SVar(<<"o">>, TIdent("Order"), <<>>),
                      SReturn(JSONCall(ELit("INT", 200), EAddr(EIdent("o"))))>>)
      [] f = "pair" ->
           FuncDecl(<<Ctx>>,
                    <<SAssign(":=", <<EIdent("u"), EIdent("x")>>,
                              <<ECall(EIdent("getThing"), <<>>)>>),
                      SReturn(JSONCall(ELit("INT", 200), EIdent("u")))>>)
      [] f = "getProfile" ->
           FuncDecl(<<Ctx>>,
                    <<SVar(<<"p">>, TStar(TIdent("Profile")), <<>>),
                      SReturn(JSONCall(ESel(EIdent("http"), "StatusOK"), EIdent("p")))>>)
      [] f = "rebind" ->
           FuncDecl(<<Ctx>>,
                    <<SAssign(":=", <<EIdent("u")>>, <<EComposite(TIdent("User"))>>),
                      SAssign("=", <<EIdent("u")>>,
                              <<EIndex(EIdent("users"), ELit("INT", 0))>>),
                      SReturn(JSONCall(ELit("INT", 200), EIdent("u")))>>)
      [] f = "listUsers" ->
           FuncDecl(<<Ctx>>,
                    <<SVar(<<"v">>, TMap(TIdent("string"), TArray(TIdent("User"))), <<>>),
                      SReturn(JSONCall(ESel(EIdent("http"), "StatusOK"), EIdent("v")))>>)
      [] f = "getTags" ->
           FuncDecl(<<Ctx>>,
                    <<SVar(<<"v">>, TArray(TIdent("Ping")), <<>>),
                      SReturn(JSONCall(ELit("INT", 200), EIdent("v")))>>)
      [] OTHER ->
           FuncDecl(<<Ctx>>,
                    <<SAssign(":=", <<EIdent("n")>>, <<EComposite(TIdent("Node"))>>),
                      SReturn(JSONCall(ELit("INT", 200), EIdent("n")))>>)

(***************************************************************************)
(* VariableTracker.  V is the Variables map; FunctionMap stays empty        *)
(* (no caller registers a return type).                                     *)
(***************************************************************************)
VariableInfo(name, type, isPointer) == [Name |-> name, Type |-> type, IsPointer |-> isPointer]

\* The placeholder of a call whose return type is not known.
AnyPlaceholder == TypeDefinition("any", KindBasic, <<>>, NilT, NilT, NilT, "", "any", TRUE)

\* resolveFunctionCallType: FunctionMap is empty, so every path ends in the
\* placeholder.
resolveFunctionCallType(V, call) ==
    IF /\ call.fun.k = "selector"
       /\ call.fun.x.k = "ident"
       /\ call.fun.x.name \in DOMAIN V
    THEN AnyPlaceholder
    ELSE AnyPlaceholder

BasicLitType(kind) ==
    CASE kind = "STRING" -> TypeDefinition("string", KindBasic, <<>>, NilT, NilT, NilT, "", "string", TRUE)
      [] kind = "INT" -> TypeDefinition("int", KindBasic, <<>>, NilT, NilT, NilT, "", "int", TRUE)
      [] kind = "FLOAT" -> TypeDefinition("float64", KindBasic, <<>>, NilT, NilT, NilT, "", "float64", TRUE)
      [] kind = "CHAR" -> TypeDefinition("rune", KindBasic, <<>>, NilT, NilT, NilT, "", "rune", TRUE)
      [] OTHER -> NilT

\* The type of the field called name of the struct node, nil when absent.
FieldType(node, name) ==
    LET is == {i \in DOMAIN node.Fields : node.Fields[i].Name = name}
    IN  IF is = {} THEN NilT
        ELSE node.Fields[CHOOSE i \in is : \A j \in is : i <= j].Type

\* resolveExpressionType: the objects after the call and the pointer returned.
RECURSIVE resolveExpressionType(_, _, _)
resolveExpressionType(m, V, e) ==
    CASE e.k = "ident" ->
           IF e.name \in DOMAIN V THEN [m |-> m, t |-> V[e.name].Type]
           ELSE LookupType(m, e.name)
      [] e.k = "selector" ->
           IF e.x.k = "ident"
           THEN LET r == LookupType(m, e.x.name \o "." \o e.sel)
                IN  IF r.t # NilT THEN r
                    ELSE IF /\ e.x.name \in DOMAIN V
                            /\ Deref(r.m.heap, V[e.x.name].Type).Kind = KindStruct
                         THEN [m |-> r.m, t |-> FieldType(Deref(r.m.heap, V[e.x.name].Type), e.sel)]
                         ELSE [m |-> r.m, t |-> NilT]
           ELSE [m |-> m, t |-> NilT]
      [] e.k = "call" -> [m |-> m, t |-> resolveFunctionCallType(V, e)]
      [] e.k = "unary" ->
           IF e.op = "&"
           THEN LET r == resolveExpressionType(m, V, e.x)
                    innerType == Deref(r.m.heap, r.t)
                IN  IF r.t # NilT
                    THEN [m |-> r.m,
                          t |-> TypeDefinition("*" \o innerType.Name, KindPointer, <<>>, r.t,
                                               NilT, NilT, innerType.Package, "",
                                               innerType.IsResolved)]
                    ELSE r
           ELSE [m |-> m, t |-> NilT]
      [] e.k = "composite" -> ResolveType(m, e.type)
      [] e.k = "lit" -> [m |-> m, t |-> BasicLitType(e.kind)]
      [] OTHER -> [m |-> m, t |-> NilT]

Panic(m, what) == [m EXCEPT !.crashed = TRUE, !.fault = what]

\* trackAssignment: [m, V] after the statement.
RECURSIVE trackLhs(_, _, _, _)
\* trackAssignment keeping the entry a variable already has.
trackLhs_FirstWins(m, V, stmt, i) ==
    IF m.crashed \/ i > Len(stmt.Lhs) THEN [m |-> m, V |-> V]
    ELSE IF stmt.Lhs[i].k # "ident" \/ i > Len(stmt.Rhs) THEN trackLhs(m, V, stmt, i + 1)
    ELSE With(resolveExpressionType(m, V, stmt.Rhs[i]),
              LAMBDA r :
                 IF r.t = NilT \/ stmt.Lhs[i].name \in DOMAIN V
                 THEN trackLhs(r.m, V, stmt, i + 1)
                 ELSE trackLhs(r.m,
                               Put(V, stmt.Lhs[i].name,
                                   VariableInfo(stmt.Lhs[i].name, r.t,
                                                isPointerType(stmt.Rhs[i]))),
                               stmt, i + 1))

trackLhs(m, V, stmt, i) ==
    IF m.crashed \/ i > Len(stmt.Lhs) THEN [m |-> m, V |-> V]
    ELSE IF stmt.Lhs[i].k # "ident" THEN trackLhs(m, V, stmt, i + 1)
    ELSE With(IF i <= Len(stmt.Rhs) THEN resolveExpressionType(m, V, stmt.Rhs[i])
              ELSE IF Len(stmt.Rhs) = 1 THEN resolveExpressionType(m, V, stmt.Rhs[1])
              ELSE [m |-> m, t |-> NilT],
              LAMBDA r :
                 IF r.t = NilT THEN trackLhs(r.m, V, stmt, i + 1)
                 ELSE IF i > Len(stmt.Rhs)
                 THEN [m |-> Panic(r.m, "index out of range"), V |-> V]   \* stmt.Rhs[i]
                 ELSE trackLhs(r.m,
                               Put(V, stmt.Lhs[i].name,
                                   VariableInfo(stmt.Lhs[i].name, r.t,
                                                isPointerType(stmt.Rhs[i]))),
                               stmt, i + 1))

trackAssignment(m, V, stmt) ==
    IF stmt.tok \notin {":=", "="} THEN [m |-> m, V |-> V]
    ELSE trackLhs(m, V, stmt, 1)

\* Record the names of a declaration or a parameter with the type t.
RECURSIVE trackNames(_, _, _, _, _)
trackNames(V, names, t, isPointer, i) ==
    IF i > Len(names) THEN V
    ELSE trackNames(Put(V, names[i], VariableInfo(names[i], t, isPointer)),
                    names, t, isPointer, i + 1)

\* trackDeclaration of a var statement with one specification.
trackDeclaration(m, V, stmt) ==
    With(IF stmt.Type.k # "none" THEN ResolveType(m, stmt.Type)
         ELSE IF Len(stmt.Values) > 0 THEN resolveExpressionType(m, V, stmt.Values[1])
         ELSE [m |-> m, t |-> NilT],
         LAMBDA r :
            IF r.t = NilT THEN [m |-> r.m, V |-> V]
            ELSE [m |-> r.m,
                  V |-> trackNames(V, stmt.Names, r.t, isPointerType(stmt.Type), 1)])

RECURSIVE trackParams(_, _, _, _)
trackParams(m, V, params, i) ==
    IF i > Len(params) THEN [m |-> m, V |-> V]
    ELSE With(ResolveType(m, params[i].Type),
              LAMBDA r :
                 IF r.t = NilT THEN trackParams(r.m, V, params, i + 1)
                 ELSE trackParams(r.m, trackNames(V, params[i].Names, r.t,
                                                  isPointerType(params[i].Type), 1),
                                  params, i + 1))

RECURSIVE trackBody(_, _, _, _)
trackBody(m, V, body, i) ==
    IF m.crashed \/ i > Len(body) THEN [m |-> m, V |-> V]
    ELSE With(CASE body[i].k = "assign" -> trackAssignment(m, V, body[i])
                [] body[i].k = "var" -> trackDeclaration(m, V, body[i])
                [] OTHER -> [m |-> m, V |-> V],
              LAMBDA r : trackBody(r.m, r.V, body, i + 1))

\* VariableTracker.TrackFunction: the map is cleared, then the parameters
\* and the whole body are walked.
TrackFunction(m, funcDecl) ==
    With(trackParams(m, EmptyMap, funcDecl.Params, 1),
         LAMBDA p : trackBody(p.m, p.V, funcDecl.Body, 1))

GetVariableType(V, name) == IF name \in DOMAIN V THEN V[name].Type ELSE NilT

(***************************************************************************)
(* ResponseAnalyzer.                                                        *)
(***************************************************************************)
ResponseInfo(statusCode, type) == [StatusCode |-> statusCode, Type |-> type]

RECURSIVE CallsOf(_)
RECURSIVE CallsOfAll(_, _)
\* The call expressions ast.Inspect meets in an expression, in its order.
CallsOf(e) ==
    CASE e.k = "call" -> <<e>> \o CallsOf(e.fun) \o CallsOfAll(e.args, 1)
      [] e.k \in {"selector", "unary"} -> CallsOf(e.x)
      [] OTHER -> <<>>

CallsOfAll(es, i) == IF i > Len(es) THEN <<>> ELSE CallsOf(es[i]) \o CallsOfAll(es, i + 1)

RECURSIVE CallsOfBody(_, _)
CallsOfBody(body, i) ==
    IF i > Len(body) THEN <<>>
    ELSE (CASE body[i].k = "assign" -> CallsOfAll(body[i].Lhs, 1) \o CallsOfAll(body[i].Rhs, 1)
            [] body[i].k = "var" -> CallsOfAll(body[i].Values, 1)
            [] OTHER -> CallsOf(body[i].x))
         \o CallsOfBody(body, i + 1)

extractStatusCode(e) ==
    CASE e.k = "lit" /\ e.kind = "INT" -> e.value
      [] e.k = "selector" /\ e.x.k = "ident" /\ e.x.name = "http" ->
           (CASE e.sel = "StatusOK" -> 200
              [] e.sel = "StatusCreated" -> 201
              [] e.sel = "StatusAccepted" -> 202
              [] e.sel = "StatusNoContent" -> 204
              [] e.sel = "StatusBadRequest" -> 400
              [] e.sel = "StatusUnauthorized" -> 401
              [] e.sel = "StatusForbidden" -> 403
              [] e.sel = "StatusNotFound" -> 404
              [] e.sel = "StatusInternalServerError" -> 500
              [] OTHER -> 200)
      [] OTHER -> 200

NilExpr == [k |-> "none"]

\* resolveResponseType: the objects after the call and the pointer returned.
RECURSIVE resolveResponseType(_, _, _)
resolveResponseType(m, V, e) ==
    CASE e.k = "ident" -> [m |-> m, t |-> GetVariableType(V, e.name)]
      [] e.k = "selector" ->
           IF e.x.k = "ident"
           THEN LET varType == GetVariableType(V, e.x.name)
                IN  IF varType # NilT /\ Deref(m.heap, varType).Kind = KindStruct
                    THEN [m |-> m, t |-> FieldType(Deref(m.heap, varType), e.sel)]
                    ELSE [m |-> m, t |-> NilT]
           ELSE [m |-> m, t |-> NilT]
      [] e.k = "call" -> [m |-> m, t |-> resolveFunctionCallType(V, e)]
      [] e.k = "composite" -> ResolveType(m, e.type)
      [] e.k = "unary" ->
           IF e.op = "&" THEN resolveResponseType(m, V, e.x) ELSE [m |-> m, t |-> NilT]
      [] OTHER -> [m |-> m, t |-> NilT]

\* checkJSONResponseMethod: [m, R] after the call, R the Responses.
checkJSONResponseMethod(m, V, R, objName, methodName, call) ==
    IF objName \notin {"c", "ctx", "context", "ec"} THEN [m |-> m, R |-> R]
    ELSE IF methodName \notin {"JSON", "JSONPretty", "JSONBlob"} THEN [m |-> m, R |-> R]
    ELSE LET statusCode == IF Len(call.args) >= 2 THEN extractStatusCode(call.args[1]) ELSE 200
             responseVar == IF Len(call.args) >= 2 THEN call.args[2] ELSE NilExpr
         IN  With(resolveResponseType(m, V, responseVar),
                  LAMBDA r :
                     IF r.t = NilT THEN [m |-> r.m, R |-> R]
                     ELSE [m |-> r.m, R |-> Append(R, ResponseInfo(statusCode, r.t))])

RECURSIVE analyzeCalls(_, _, _, _, _)
analyzeCalls(m, V, R, calls, i) ==
    IF i > Len(calls) THEN [m |-> m, R |-> R]
    ELSE IF calls[i].fun.k = "selector" /\ calls[i].fun.x.k = "ident"
         THEN With(checkJSONResponseMethod(m, V, R, calls[i].fun.x.name,
                                           calls[i].fun.sel, calls[i]),
                   LAMBDA r : analyzeCalls(r.m, V, r.R, calls, i + 1))
         ELSE analyzeCalls(m, V, R, calls, i + 1)

\* ResponseAnalyzer.AnalyzeHandler: Responses is cleared, then every call
\* of the body is checked against the tracker's map as it stands.
AnalyzeHandler(m, V, funcDecl) ==
    analyzeCalls(m, V, <<>>, CallsOfBody(funcDecl.Body, 1), 1)

(***************************************************************************)
(* SchemaGenerator.  A *JSONSchema is NilS or a schema record; a schema is  *)
(* not written after it is built, so the pointer is modelled by its value.  *)
(***************************************************************************)
NilS == [nil |-> TRUE]
JSONSchema(type, format, items, properties, required, additional) ==
    [Type |-> type, Format |-> format, Items |-> items, Properties |-> properties,
     Required |-> required, AdditionalProperties |-> additional]

\* &JSONSchema{}: the schema that says nothing.
EmptySchema == JSONSchema("", "", NilS, NilS, <<>>, NilS)

\* A copy that leaves the items out.
Property_NoItems(schema) ==
    [Type |-> schema.Type, Format |-> schema.Format, Items |-> NilS,
     Properties |-> schema.Properties, Required |-> schema.Required,
     AdditionalProperties |-> schema.AdditionalProperties]

\* The copy of a schema into a JSONSchemaProperty.
Property(schema) ==
    [Type |-> schema.Type, Format |-> schema.Format, Items |-> schema.Items,
     Properties |-> schema.Properties, Required |-> schema.Required,
     AdditionalProperties |-> schema.AdditionalProperties]

generateBasicSchema(typeDef) ==
    CASE typeDef.BasicType = "string" -> [EmptySchema EXCEPT !.Type = "string"]
      [] typeDef.BasicType \in {"int", "int8", "int16", "int32", "int64", "uint", "uint8",
                                "uint16", "uint32", "uint64"} ->
           [EmptySchema EXCEPT !.Type = "integer"]
      [] typeDef.BasicType \in {"float32", "float64"} -> [EmptySchema EXCEPT !.Type = "number"]
      [] typeDef.BasicType = "bool" -> [EmptySchema EXCEPT !.Type = "boolean"]
      [] typeDef.BasicType = "time.Time" ->
           [EmptySchema EXCEPT !.Type = "string", !.Format = "date-time"]
      [] OTHER -> [EmptySchema EXCEPT !.Type = "string"]

\* The key a schema is remembered under.
schemaKey(typeDef) == typeDef.Package \o "." \o typeDef.Name

RECURSIVE GenerateSchema(_, _, _, _)
RECURSIVE generateStructSchema(_, _, _, _, _, _)
\* A GenerateSchema that renders a pointer as the schema that says nothing
\* in place of the schema of what it points at.
GenerateSchema_PointerOpaque(h, S, t, d) ==
    IF t = NilT THEN [S |-> S, s |-> NilS, over |-> FALSE]
    ELSE LET typeDef == Deref(h, t)
             key == schemaKey(typeDef)
         IN  IF key \in DOMAIN S THEN [S |-> S, s |-> S[key], over |-> FALSE]
             ELSE IF Reenters(d, t) THEN [S |-> S, s |-> NilS, over |-> TRUE]
             ELSE LET r ==
                        CASE typeDef.Kind = KindStruct ->
                               generateStructSchema(h, S, typeDef, 1, Push(d, t),
                                   JSONSchema("object", "", NilS, EmptyMap, <<>>, NilS))
                          [] typeDef.Kind = KindArray ->
                               LET e == GenerateSchema(h, S, typeDef.ElementType, Push(d, t))
                               IN  [S |-> e.S, over |-> e.over,
                                    s |-> JSONSchema("array", "", e.s, NilS, <<>>, NilS)]
                          [] typeDef.Kind = KindMap ->
                               LET v == GenerateSchema(h, S, typeDef.ValueType, Push(d, t))
                               IN  [S |-> v.S, over |-> v.over,
                                    s |-> JSONSchema("object", "", NilS, NilS, <<>>,
                                                     IF v.s = NilS THEN NilS ELSE Property(v.s))]
                          [] typeDef.Kind = KindBasic ->
                               [S |-> S, s |-> generateBasicSchema(typeDef), over |-> FALSE]
                          [] OTHER -> [S |-> S, s |-> EmptySchema, over |-> FALSE]
                  IN  IF r.over \/ r.s = NilS THEN r
                      ELSE [r EXCEPT !.S = Put(r.S, key, r.s)]

\* GenerateSchema on the pointer t with the nodes h and the remembered
\* schemas S, with the call stack d: [S, s, over], s the schema returned and over
\* whether the stack overflowed.
GenerateSchema(h, S, t, d) ==
    IF t = NilT THEN [S |-> S, s |-> NilS, over |-> FALSE]
    ELSE LET typeDef == Deref(h, t)
             key == schemaKey(typeDef)
         IN  IF key \in DOMAIN S THEN [S |-> S, s |-> S[key], over |-> FALSE]
             ELSE IF Reenters(d, t) THEN [S |-> S, s |-> NilS, over |-> TRUE]
             ELSE LET r ==
                        CASE typeDef.Kind = KindStruct ->
                               generateStructSchema(h, S, typeDef, 1, Push(d, t),
                                   JSONSchema("object", "", NilS, EmptyMap, <<>>, NilS))
                          [] typeDef.Kind = KindArray ->
                               LET e == GenerateSchema(h, S, typeDef.ElementType, Push(d, t))
                               IN  [S |-> e.S, over |-> e.over,
                                    s |-> JSONSchema("array", "", e.s, NilS, <<>>, NilS)]
                          [] typeDef.Kind = KindMap ->
                               LET v == GenerateSchema(h, S, typeDef.ValueType, Push(d, t))
                               IN  [S |-> v.S, over |-> v.over,
                                    s |-> JSONSchema("object", "", NilS, NilS, <<>>,
                                                     IF v.s = NilS THEN NilS ELSE Property(v.s))]
                          [] typeDef.Kind = KindBasic ->
                               [S |-> S, s |-> generateBasicSchema(typeDef), over |-> FALSE]
                          [] OTHER -> GenerateSchema(h, S, typeDef.ElementType, Push(d, t))
                  IN  IF r.over \/ r.s = NilS THEN r
                      ELSE [r EXCEPT !.S = Put(r.S, key, r.s)]

\* A field loop that lists every field as required, omitempty or not.
RECURSIVE generateStructSchema_AllRequired(_, _, _, _, _, _)
generateStructSchema_AllRequired(h, S, typeDef, i, d, schema) ==
    IF i > Len(typeDef.Fields) THEN [S |-> S, s |-> schema, over |-> FALSE]
    ELSE LET field == typeDef.Fields[i]
             jsonName == IF field.JSONName # "" THEN field.JSONName ELSE field.Name
             f == GenerateSchema(h, S, field.Type, d)
         IN  IF f.over THEN f
             ELSE IF field.Type = NilT \/ f.s = NilS
             THEN generateStructSchema_AllRequired(h, f.S, typeDef, i + 1, d, schema)
             ELSE generateStructSchema_AllRequired(h, f.S, typeDef, i + 1, d,
                      [schema EXCEPT
                          !.Properties = Put(@, jsonName, Property(f.s)),
                          !.Required = Append(@, jsonName)])

\* The field loop of generateStructSchema, schema being the one under
\* construction.
generateStructSchema(h, S, typeDef, i, d, schema) ==
    IF i > Len(typeDef.Fields) THEN [S |-> S, s |-> schema, over |-> FALSE]
    ELSE LET field == typeDef.Fields[i]
             jsonName == IF field.JSONName # "" THEN field.JSONName ELSE field.Name
             f == GenerateSchema(h, S, field.Type, d)
         IN  IF f.over THEN f
             ELSE IF field.Type = NilT \/ f.s = NilS
             THEN generateStructSchema(h, f.S, typeDef, i + 1, d, schema)
             ELSE generateStructSchema(h, f.S, typeDef, i + 1, d,
                      [schema EXCEPT
                          !.Properties = Put(@, jsonName, Property(f.s)),
                          !.Required = IF field.Omitempty THEN @ ELSE Append(@, jsonName)])

(***************************************************************************)
(* SchemaGenerator.generateExample.  An example value is NilE (Go's nil     *)
(* interface) or [k, v]: an object (a map), an array (a sequence), a        *)
(* string, a number or a boolean.                                           *)
(***************************************************************************)
NilE == [nil |-> TRUE]
Ex(k, v) == [k |-> k, v |-> v]

generateBasicExample(typeDef) ==
    CASE typeDef.BasicType = "string" -> Ex("string", "string")
      [] typeDef.BasicType \in {"int", "int8", "int16", "int32", "int64", "uint", "uint8",
                                "uint16", "uint32", "uint64"} -> Ex("integer", 0)
      [] typeDef.BasicType \in {"float32", "float64"} -> Ex("float", 0)
      [] typeDef.BasicType = "bool" -> Ex("boolean", FALSE)
      [] typeDef.BasicType = "time.Time" -> Ex("string", "2025-04-23T01:27:02Z")
      [] OTHER -> Ex("string", "unknown")

RECURSIVE generateExample(_, _, _)
RECURSIVE generateStructExample(_, _, _, _, _)
\* generateExample on the pointer t with the call stack d: [e, over].
generateExample(h, t, d) ==
    IF t = NilT THEN [e |-> NilE, over |-> FALSE]
    ELSE IF Reenters(d, t) THEN [e |-> NilE, over |-> TRUE]
    ELSE LET typeDef == Deref(h, t)
         IN  CASE typeDef.Kind = KindStruct ->
                    generateStructExample(h, typeDef, 1, Push(d, t), EmptyMap)
               [] typeDef.Kind = KindArray ->
                    LET r == generateExample(h, typeDef.ElementType, Push(d, t))
                    IN  [e |-> Ex("array", IF r.e = NilE THEN <<>> ELSE <<r.e>>), over |-> r.over]
               [] typeDef.Kind = KindMap ->
                    LET r == generateExample(h, typeDef.ValueType, Push(d, t))
                    IN  [e |-> Ex("object", IF r.e = NilE THEN EmptyMap
                                            ELSE Put(EmptyMap, "key", r.e)),
                         over |-> r.over]
               [] typeDef.Kind = KindBasic -> [e |-> generateBasicExample(typeDef), over |-> FALSE]
               [] OTHER -> generateExample(h, typeDef.ElementType, Push(d, t))

\* The field loop of generateStructExample.
generateStructExample(h, typeDef, i, d, example) ==
    IF i > Len(typeDef.Fields) THEN [e |-> Ex("object", example), over |-> FALSE]
    ELSE LET field == typeDef.Fields[i]
             jsonName == IF field.JSONName # "" THEN field.JSONName ELSE field.Name
         IN  IF field.Type = NilT \/ field.Omitempty
             THEN generateStructExample(h, typeDef, i + 1, d, example)
             ELSE LET r == generateExample(h, field.Type, d)
                  IN  IF r.over THEN r
                      ELSE generateStructExample(h, typeDef, i + 1, d,
                               IF r.e = NilE THEN example ELSE Put(example, jsonName, r.e))

(***************************************************************************)
(* RouteScanner.  A file is the sequence of the statements of its main;    *)
(* a string literal keeps its quotes, as ast.BasicLit.Value does.          *)
(***************************************************************************)
RouteInfo(method, path, handlerName) ==
    [Method |-> method, Path |-> path, HandlerName |-> handlerName]

NewRouteScanner ==
    [Routes |-> <<>>, echoVarNames |-> {"e", "echo", "router", "app", "server"}]

\* The texts of the string literals of the files, and a literal as written.
LitTexts == {"", "/api", "/users"}
Quote(text) == "\"" \o text \o "\""
QuoteTable == [text \in LitTexts |-> Quote(text)]
\* strings.Trim(value, "\"'`")
TrimQuotes(value) == CHOOSE text \in LitTexts : QuoteTable[text] = value

\* v := echo.New()
NewEcho(v) == SAssign(":=", <<EIdent(v)>>, <<ECall(ESel(EIdent("echo"), "New"), <<>>)>>)
\* v := x.Group("/api")
GroupOf(v, x) ==
    SAssign(":=", <<EIdent(v)>>,
            <<ECall(ESel(EIdent(x), "Group"), <<ELit("STRING", QuoteTable["/api"])>>)>>)
\* x.method(path, getUsers)
RouteOn(x, method, path) ==
    SExpr(ECall(ESel(EIdent(x), method),
                <<ELit("STRING", QuoteTable[path]), EIdent("getUsers")>>))

getHTTPMethod(methodName) ==
    CASE methodName \in {"GET", "POST", "PUT", "DELETE", "PATCH", "OPTIONS", "HEAD"} ->
           methodName
      [] methodName = "Any" -> "ANY"
      [] OTHER -> ""

extractStringLiteral(expr) ==
    IF expr.k = "lit" /\ expr.kind = "STRING" THEN TrimQuotes(expr.value) ELSE ""

extractHandlerInfo(expr) ==
    CASE expr.k = "ident" -> expr.name
      [] expr.k = "selector" /\ expr.x.k = "ident" -> expr.x.name \o "." \o expr.sel
      [] expr.k = "funclit" -> "anonymous"
      [] OTHER -> "unknown"

\* The names identifyEchoInstances finds in one assignment.
echoInstancesOf(assign) ==
    {assign.Lhs[i].name :
        i \in {j \in DOMAIN assign.Rhs :
                 /\ assign.Rhs[j].k = "call"
                 /\ assign.Rhs[j].fun.k = "selector"
                 /\ assign.Rhs[j].fun.x.k = "ident"
                 /\ assign.Rhs[j].fun.x.name = "echo"
                 /\ assign.Rhs[j].fun.sel = "New"
                 /\ j <= Len(assign.Lhs)
                 /\ assign.Lhs[j].k = "ident"}}

identifyEchoInstances(s, file) ==
    [s EXCEPT !.echoVarNames =
        @ \cup UNION {echoInstancesOf(file[i]) : i \in {j \in DOMAIN file : file[j].k = "assign"}}]

\* The callback of findRouteDefinitions on a node n that is a call
\* expression.  The node the group branch tests for an assignment is this
\* same n.
visitRouteCall(s, n) ==
    IF n.fun.k = "selector" /\ n.fun.x.k = "ident" /\ n.fun.x.name \in s.echoVarNames
    THEN LET method == getHTTPMethod(n.fun.sel)
             s1 == IF method # "" /\ Len(n.args) >= 2 /\ extractStringLiteral(n.args[1]) # ""
                   THEN [s EXCEPT !.Routes =
                            Append(@, RouteInfo(method, extractStringLiteral(n.args[1]),
                                                extractHandlerInfo(n.args[2])))]
                   ELSE s
         IN  IF /\ n.fun.sel = "Group"
                /\ Len(n.args) >= 1
                /\ extractStringLiteral(n.args[1]) # ""
                /\ n.k = "assign"
             THEN [s1 EXCEPT !.echoVarNames =
                      @ \cup {n.Lhs[i].name :
                                i \in {j \in DOMAIN n.Rhs :
                                         /\ n.Rhs[j] = n
                                         /\ j <= Len(n.Lhs)
                                         /\ n.Lhs[j].k = "ident"}}]
             ELSE s1
    ELSE s

RECURSIVE visitRouteCalls(_, _, _)
visitRouteCalls(s, calls, i) ==
    IF i > Len(calls) THEN s ELSE visitRouteCalls(visitRouteCall(s, calls[i]), calls, i + 1)

findRouteDefinitions(s, file) == visitRouteCalls(s, CallsOfBody(file, 1), 1)

RECURSIVE Scan(_, _, _)
\* Scan(files): both passes on each file in turn.
Scan(s, fs, i) ==
    IF i > Len(fs) THEN s
    ELSE Scan(findRouteDefinitions(identifyEchoInstances(s, fs[i]), fs[i]), fs, i + 1)

\* The files a route scan is run on: one file of up to MaxFileLen statements
\* that create Echo instances, bind groups and define routes.
EchoNames == {"e", "srv"}
GroupNames == {"g", "router"}
RouteStmts ==
    {NewEcho(v) : v \in EchoNames}
    \cup {GroupOf(v, x) : v \in GroupNames, x \in EchoNames}
    \cup {RouteOn(x, method, "/users") : x \in EchoNames \cup GroupNames, method \in {"GET", "Use"}}
    \cup {RouteOn("e", "GET", "")}
RouteFiles == UNION {[1..n -> RouteStmts] : n \in 1..MaxFileLen}

(***************************************************************************)
(* The system: one registry, one collector, one resolver, one analyzer,    *)
(* one tracker, one response analyzer and one generator, driven by a       *)
(* caller that works in the stages of README's main: it collects (with     *)
(* CollectTypes or with ScanPackage, packages in any order), then runs     *)
(* resolution passes in the order ResolveTypes, ResolvePackages,           *)
(* ResolveImportedTypes, AnalyzeStructFields, AnalyzeNestedStructs (any of *)
(* them may be left out), then tracks and analyzes handlers and generates from the          *)
(* responses found.                                                         *)
(***************************************************************************)
Constructed ==
    /\ Packages = EmptyMap
    /\ CurrentPackage = ""
    /\ heap = <<>>
    /\ ParsedPackages = {}
    /\ Variables = EmptyMap
    /\ tracked = ""
    /\ Responses = <<>>
    /\ analyzed = ""
    /\ Schemas = EmptyMap
    /\ generated = <<>>
    /\ collects = [p \in PkgPaths |-> 0]
    /\ done = {}
    /\ crashed = FALSE
    /\ fault = ""
    /\ echoVarNames = NewRouteScanner.echoVarNames
    /\ Routes = NewRouteScanner.Routes
    /\ scans = 0

Init == world \in Worlds /\ scanFiles = <<>> /\ Constructed

\* The registry, the nodes and the resolver's set become those of m.
Commit(m) ==
    /\ Packages' = m.Packages
    /\ CurrentPackage' = m.CurrentPackage
    /\ heap' = m.heap
    /\ ParsedPackages' = m.Parsed
    /\ crashed' = m.crashed
    /\ fault' = m.fault

\* The passes in the order the caller runs them in.
PassOrder ==
    <<"ResolveTypes", "ResolvePackages", "ResolveImportedTypes", "AnalyzeStructFields",
      "AnalyzeNestedStructs">>
PassIndex(pass) == CHOOSE i \in DOMAIN PassOrder : PassOrder[i] = pass

Collecting == ~crashed /\ done = {} /\ tracked = ""
MayRun(pass) ==
    /\ ~crashed
    /\ tracked = ""
    /\ "ResolveAgain" \notin done
    /\ \A q \in done : PassIndex(q) < PassIndex(pass)
Ran(pass, m) == done' = IF m.crashed THEN done ELSE done \cup {pass}

CollectTypes(p) ==
    /\ Collecting
    /\ collects[p] < MaxCollect
    /\ Commit(TC_CollectTypes(Mach, Files(world, p), p))
    /\ collects' = [collects EXCEPT ![p] = @ + 1]
    /\ UNCHANGED <<scanVars, world, Variables, tracked, Responses, analyzed, Schemas, generated, done>>

\* ScanPackage(p): every package it parses counts as collected.
ScanPackage(p) ==
    /\ Collecting
    /\ collects[p] < MaxCollect
    /\ p \notin ParsedPackages
    /\ With(PR_ScanPackage(Mach, world, p),
            LAMBDA m :
               /\ Commit(m)
               /\ collects' = [q \in PkgPaths |->
                                  IF q \in m.Parsed \ ParsedPackages THEN collects[q] + 1
                                  ELSE collects[q]])
    /\ UNCHANGED <<scanVars, world, Variables, tracked, Responses, analyzed, Schemas, generated, done>>

ResolveTypes ==
    /\ MayRun("ResolveTypes")
    /\ \E o \in Orders(Packages) :
          With(TC_ResolveTypes(Mach, o), LAMBDA m : Commit(m) /\ Ran("ResolveTypes", m))
    /\ UNCHANGED <<scanVars, world, Variables, tracked, Responses, analyzed, Schemas, generated, collects>>

ResolvePackages ==
    /\ MayRun("ResolvePackages")
    /\ \E o \in Orders(Packages) :
          With(PR_ResolvePackages(Mach, o), LAMBDA m : Commit(m) /\ Ran("ResolvePackages", m))
    /\ UNCHANGED <<scanVars, world, Variables, tracked, Responses, analyzed, Schemas, generated, collects>>

ResolveImportedTypesOp ==
    /\ MayRun("ResolveImportedTypes")
    /\ \E o \in Orders(Packages) :
          With(ResolveImportedTypes(Mach, o), LAMBDA m : Commit(m) /\ Ran("ResolveImportedTypes", m))
    /\ UNCHANGED <<scanVars, world, Variables, tracked, Responses, analyzed, Schemas, generated, collects>>

AnalyzeStructFieldsOp ==
    /\ MayRun("AnalyzeStructFields")
    /\ \E o \in Orders(Packages) :
          With(AnalyzeStructFields(Mach, o), LAMBDA m : Commit(m) /\ Ran("AnalyzeStructFields", m))
    /\ UNCHANGED <<scanVars, world, Variables, tracked, Responses, analyzed, Schemas, generated, collects>>

AnalyzeNestedStructsOp ==
    /\ MayRun("AnalyzeNestedStructs")
    /\ \E o \in Orders(Packages) :
          With(AnalyzeNestedStructs(Mach, o), LAMBDA m : Commit(m) /\ Ran("AnalyzeNestedStructs", m))
    /\ UNCHANGED <<scanVars, world, Variables, tracked, Responses, analyzed, Schemas, generated, collects>>

\* The pass called pass, from the registry m with the iteration order o.
RunPass(pass, m, o) ==
    CASE pass = "ResolveTypes" -> TC_ResolveTypes(m, o)
      [] pass = "ResolvePackages" -> PR_ResolvePackages(m, o)
      [] pass = "ResolveImportedTypes" -> ResolveImportedTypes(m, o)
      [] pass = "AnalyzeStructFields" -> AnalyzeStructFields(m, o)
      [] OTHER -> AnalyzeNestedStructs(m, o)

\* A pass that has returned is run a second time (and may be run again);
\* done remembers that a pass was repeated.
ResolveAgain(pass) ==
    /\ ~crashed
    /\ tracked = ""
    /\ pass \in done
    /\ \E o \in Orders(Packages) : Commit(RunPass(pass, Mach, o))
    /\ done' = done \cup {"ResolveAgain"}
    /\ UNCHANGED <<scanVars, world, Variables, tracked, Responses, analyzed, Schemas, generated, collects>>

\* TrackFunction on a handler (a new handler's turn: nothing generated yet),
\* by a caller that ran each pass once.
TrackFunctionOp(f) ==
    /\ ~crashed
    /\ generated = <<>>
    /\ "ResolveAgain" \notin done
    /\ With(TrackFunction(Mach, Func(f)), LAMBDA r : Commit(r.m) /\ Variables' = r.V)
    /\ tracked' = f
    /\ UNCHANGED <<scanVars, world, Responses, analyzed, Schemas, generated, collects, done>>

\* AnalyzeHandler on the handler the tracker ran on.
AnalyzeHandlerOp(f) ==
    /\ ~crashed
    /\ generated = <<>>
    /\ tracked = f
    /\ With(AnalyzeHandler(Mach, Variables, Func(f)),
            LAMBDA r : Commit(r.m) /\ Responses' = r.R)
    /\ analyzed' = f
    /\ UNCHANGED <<scanVars, world, Variables, tracked, Schemas, generated, collects, done>>

\* What a generator call was made on and what it returned.
Generated(op, i, out) ==
    [op |-> op, fn |-> analyzed, StatusCode |-> Responses[i].StatusCode,
     Type |-> Responses[i].Type, out |-> out]

\* GenerateSchema on the type of a response found by the response analyzer.
GenerateSchemaOp(i) ==
    /\ ~crashed
    /\ analyzed = tracked
    /\ Len(generated) < MaxGenerated
    /\ With(GenerateSchema(heap, Schemas, Responses[i].Type, <<>>),
            LAMBDA r :
               /\ crashed' = r.over
               /\ fault' = IF r.over THEN "GenerateSchema" ELSE ""
               /\ Schemas' = IF r.over THEN Schemas ELSE r.S
               /\ generated' = IF r.over THEN generated
                               ELSE Append(generated, Generated("schema", i, r.s)))
    /\ UNCHANGED <<scanVars, world, Packages, CurrentPackage, heap, ParsedPackages, Variables,
                   tracked, Responses, analyzed, collects, done>>

\* generateExample on the type of a response.
GenerateExampleOp(i) ==
    /\ ~crashed
    /\ analyzed = tracked
    /\ Len(generated) < MaxGenerated
    /\ With(generateExample(heap, Responses[i].Type, <<>>),
            LAMBDA r :
               /\ crashed' = r.over
               /\ fault' = IF r.over THEN "generateExample" ELSE ""
               /\ generated' = IF r.over THEN generated
                               ELSE Append(generated, Generated("example", i, r.e)))
    /\ UNCHANGED <<scanVars, world, Packages, CurrentPackage, heap, ParsedPackages, Variables,
                   tracked, Responses, analyzed, Schemas, collects, done>>

Next ==
    \/ \E p \in PkgPaths : CollectTypes(p)
    \/ \E p \in PkgPaths : ScanPackage(p)
    \/ ResolveTypes
    \/ ResolvePackages
    \/ ResolveImportedTypesOp
    \/ AnalyzeStructFieldsOp
    \/ AnalyzeNestedStructsOp
    \/ \E pass \in Range(PassOrder) : ResolveAgain(pass)
    \/ \E f \in Funcs(world) : TrackFunctionOp(f)
    \/ \E f \in Funcs(world) : AnalyzeHandlerOp(f)
    \/ \E i \in DOMAIN Responses : GenerateSchemaOp(i)
    \/ \E i \in DOMAIN Responses : GenerateExampleOp(i)

Spec == Init /\ [][Next]_vars

(***************************************************************************)
(* The route scanner on its own: a fresh scanner is handed one file.  It   *)
(* shares nothing with the registry.                                        *)
(***************************************************************************)
ScanInit == world = "shop" /\ scanFiles \in {<<file>> : file \in RouteFiles} /\ Constructed

ScanOp ==
    /\ scans < MaxScans
    /\ With(Scan([Routes |-> Routes, echoVarNames |-> echoVarNames], scanFiles, 1),
            LAMBDA s : Routes' = s.Routes /\ echoVarNames' = s.echoVarNames)
    /\ scans' = scans + 1
    /\ UNCHANGED <<scanFiles, world, Packages, CurrentPackage, heap, ParsedPackages, Variables,
                   tracked, Responses, analyzed, Schemas, generated, collects, done,
                   crashed, fault>>

ScanNext == ScanOp

ScanSpec == ScanInit /\ [][ScanNext]_vars

(***************************************************************************)
(* Properties.                                                              *)
(***************************************************************************)
\* The nodes registered in some package.
Registered == UNION {Range(Packages[p].Types) : p \in DOMAIN Packages}

IsRegistered(p, n) == p \in DOMAIN Packages /\ n \in DOMAIN Packages[p].Types
NodeOf(p, n) == heap[Packages[p].Types[n]]

Resolved == {"ResolveTypes", "ResolvePackages"} \subseteq done

\* C1: once ResolvePackages has returned (after ResolveTypes or without
\* it), every node registered in any package has IsResolved = true,
\* whatever was collected and however it was collected.
C1_AllRegisteredResolved ==
    "ResolvePackages" \in done => \A id \in Registered : heap[id].IsResolved

\* C1's case: ResolveTypes then ResolvePackages have returned on a registry
\* that holds a record collected with its fields.
C1_Witness ==
    /\ Resolved
    /\ \E id \in Registered : heap[id].Kind = KindStruct /\ Len(heap[id].Fields) >= 2

\* C2: resolving a record with a field of its own type, or a pair of
\* records that refer to each other, ends without unbounded recursion: no
\* resolution pass overflows the stack on such types.
C2_TypeCyclesTerminate ==
    fault \notin {"PackageResolver.resolveType", "analyzeStructType", "resolveImportedType"}

\* The state C2 fails in: ResolvePackages ran out of stack on the scanned
\* package that declares Node with its field Next *Node.
C2_Witness ==
    /\ world = "recursive"
    /\ PkgP \in ParsedPackages
    /\ crashed
    /\ fault = "PackageResolver.resolveType"

\* C3: GenerateSchema and generateExample end with a finite result on a
\* self-referential node.
C3_GeneratorsTerminate == fault \notin {"GenerateSchema", "generateExample"}

\* The state C3 fails in: GenerateSchema ran out of stack on the response
\* of getNode, whose type Node reaches itself through Next.
C3_Witness ==
    /\ analyzed = "getNode"
    /\ Len(Responses) = 1
    /\ Deref(heap, Responses[1].Type).Name = "Node"
    /\ crashed
    /\ fault = "GenerateSchema"

\* C4: the type reported at a response call is the type of the variable's
\* most recent assignment before the call: in swap (v := User{}; c.JSON(200, v);
\* v = Profile{}) the call reports User.
C4_TypeAtPointOfUse ==
    (/\ analyzed = "swap"
     /\ tracked = "swap"
     /\ IsRegistered(CurrentPackage, "User")
     /\ IsRegistered(CurrentPackage, "Profile")
     /\ Len(Responses) > 0)
    => Deref(heap, Responses[1].Type).Name = "User"

\* The state C4 fails in: the call c.JSON(200, v) of swap is reported with
\* Profile, the type v has when the function ends.
C4_Witness ==
    /\ analyzed = "swap"
    /\ tracked = "swap"
    /\ Len(Responses) = 1
    /\ Responses[1].Type = Variables["v"].Type
    /\ Deref(heap, Responses[1].Type).Name = "Profile"

\* The schema type_resolution_design.md expects for User.
ExpectedUserSchema(s) ==
    /\ s # NilS
    /\ s.Type = "object"
    /\ DOMAIN s.Properties = {"ID", "Name", "Profile"}
    /\ s.Properties["ID"].Type = "integer"
    /\ s.Properties["Name"].Type = "string"
    /\ s.Properties["Profile"].Type = "object"
    /\ DOMAIN s.Properties["Profile"].Properties = {"Bio", "Skills"}
    /\ s.Properties["Profile"].Properties["Bio"].Type = "string"
    /\ s.Properties["Profile"].Properties["Skills"].Type = "array"
    /\ s.Properties["Profile"].Properties["Skills"].Items # NilS
    /\ s.Properties["Profile"].Properties["Skills"].Items.Type = "string"
    /\ s.Properties["Profile"].Required = <<"Skills">>

\* C5: after collect and resolve, the schema generated for the response of
\* getUser (u := User{}; c.JSON(..., u)) has ID: integer, Name: string and
\* Profile: an object with Bio: string, Skills: array of string and
\* required = [Skills].
C5_UserSchemaEndToEnd ==
    \A i \in DOMAIN generated :
        (Resolved /\ generated[i].op = "schema" /\ generated[i].fn = "getUser")
        => ExpectedUserSchema(generated[i].out)

\* The state C5 fails in: after CollectTypes, ResolveTypes and
\* ResolvePackages the schema of getUser's response has ID and Profile of
\* type string.
C5_Witness ==
    /\ Resolved
    /\ collects[PkgP] = 1
    /\ PkgP \notin ParsedPackages
    /\ \E i \in DOMAIN generated :
          /\ generated[i].op = "schema"
          /\ generated[i].fn = "getUser"
          /\ generated[i].out.Properties["ID"].Type = "string"
          /\ generated[i].out.Properties["Profile"].Type = "string"

\* C6: after ResolveTypes and ResolvePackages, Order's field Item (declared q.Item) points at the
\* node registered as Item in package q, and Item's own field Size points
\* at q's Size.
C6_CrossPackageField ==
    (/\ world = "cross"
     /\ Resolved
     /\ IsRegistered(PkgP, "Order")
     /\ IsRegistered(PkgQ, "Item")
     /\ IsRegistered(PkgQ, "Size"))
    => /\ FieldType(NodeOf(PkgP, "Order"), "Item") = Ref(Packages[PkgQ].Types["Item"])
       /\ FieldType(NodeOf(PkgQ, "Item"), "Size") = Ref(Packages[PkgQ].Types["Size"])
       /\ NodeOf(PkgQ, "Item").IsResolved

\* The state C6 fails in: after resolution Order's field Item holds a
\* placeholder of its own while q's Item is registered.
C6_Witness ==
    /\ world = "cross"
    /\ Resolved
    /\ IsRegistered(PkgP, "Order")
    /\ IsRegistered(PkgQ, "Item")
    /\ FieldType(NodeOf(PkgP, "Order"), "Item").tag = "node"
    /\ FieldType(NodeOf(PkgP, "Order"), "Item").Name = "string"

\* A node made up to stand for a type that was not found: owned by its
\* holder (not registered), basic and resolved.
IsSynthesized(t) ==
    /\ t.tag = "node"
    /\ t.Kind = KindBasic
    /\ t.IsResolved
    /\ t.Name \in {"string", "unknown"}

C8_ImportCycleTerminates == fault # "resolvePackageDependencies"

\* The state C8 fails in: ResolvePackages ran out of stack following the
\* imports of P and Q round.
C8_Witness ==
    /\ world = "cyclic"
    /\ {PkgP, PkgQ} \subseteq DOMAIN Packages
    /\ PkgQ \in Range(Packages[PkgP].Imports)
    /\ PkgP \in Range(Packages[PkgQ].Imports)
    /\ crashed
    /\ fault = "resolvePackageDependencies"

\* The wire name of a field.
WireName(field) == IF field.JSONName # "" THEN field.JSONName ELSE field.Name

RECURSIVE RequiredOf(_, _)
\* The wire names of the fields without omitempty, in field order.
RequiredOf(fields, i) ==
    IF i > Len(fields) THEN <<>>
    ELSE (IF fields[i].Omitempty THEN <<>> ELSE <<WireName(fields[i])>>)
         \o RequiredOf(fields, i + 1)

\* The generator calls that returned the schema of a record all of whose
\* fields have a type.
RecordSchemas ==
    {i \in DOMAIN generated :
        /\ generated[i].op = "schema"
        /\ Deref(heap, generated[i].Type).Kind = KindStruct
        /\ \A j \in DOMAIN Deref(heap, generated[i].Type).Fields :
               Deref(heap, generated[i].Type).Fields[j].Type # NilT}

IsUnknown(node) == node.Kind = KindBasic /\ node.BasicType \in {"any", "unknown"}

\* C10: the schema generated for a type of undetermined shape is the empty
\* schema {} that carries no type.
C10_UnknownIsEmptySchema ==
    \A i \in DOMAIN generated :
        (generated[i].op = "schema" /\ IsUnknown(Deref(heap, generated[i].Type)))
        => generated[i].out = EmptySchema

\* The state C10 fails in: the placeholder of an unknown call result has
\* been rendered as a schema of type string.
C10_Witness ==
    \E i \in DOMAIN generated :
        /\ generated[i].op = "schema"
        /\ IsUnknown(Deref(heap, generated[i].Type))
        /\ generated[i].out.Type = "string"

\* The generator calls that returned the schema of a record.
StructSchemas ==
    {i \in DOMAIN generated :
        /\ generated[i].op = "schema"
        /\ Deref(heap, generated[i].Type).Kind = KindStruct}

\* C11: the schema of a record has a property for every field of the
\* record, the fields whose type is nil included.
C11_EveryFieldRendered ==
    \A i \in StructSchemas :
        LET fields == Deref(heap, generated[i].Type).Fields
        IN  /\ generated[i].out # NilS
            /\ \A j \in DOMAIN fields : WireName(fields[j]) \in DOMAIN generated[i].out.Properties

\* The state C11 fails in: Order was scanned and resolved by the
\* PackageResolver, its field Owner (of the undeclared type Missing) has no
\* type, and the schema generated for Order has no property Owner.
C11_Witness ==
    \E i \in StructSchemas :
        /\ "ResolvePackages" \in done
        /\ Deref(heap, generated[i].Type).Name = "Order"
        /\ FieldType(Deref(heap, generated[i].Type), "Owner") = NilT
        /\ "item" \in DOMAIN generated[i].out.Properties
        /\ "Owner" \notin DOMAIN generated[i].out.Properties

\* A pointer-kinded response type whose element is a type that is there.
PointerSchemas ==
    {i \in DOMAIN generated :
        /\ generated[i].op = "schema"
        /\ Deref(heap, generated[i].Type).Kind = KindPointer
        /\ Deref(heap, generated[i].Type).ElementType # NilT}

\* C12: the schema generated for a pointer to X is the schema a generator
\* that has remembered nothing generates for X itself.
C12_PointerTransparent ==
    \A i \in PointerSchemas :
        LET x == GenerateSchema(heap, EmptyMap, Deref(heap, generated[i].Type).ElementType, <<>>)
        IN  ~x.over => generated[i].out = x.s

\* C12's case: the schema of getProfile's response, of type *Profile, has
\* been generated, Profile having been collected with its two fields.
C12_Witness ==
    \E i \in PointerSchemas :
        /\ generated[i].fn = "getProfile"
        /\ Deref(heap, generated[i].Type).Name = "*Profile"
        /\ generated[i].out # NilS
        /\ generated[i].out.Type = "object"
        /\ DOMAIN generated[i].out.Properties = {"Bio", "Skills"}

\* C13: a pass run a second time on the registry it has resolved changes
\* no package, no type table and no node, and so neither the schema nor the
\* example of any registered type; it does not fail either.
C13_ResolveTwiceChangesNothing ==
    [][("ResolveAgain" \in done' /\ tracked' = "")
       => /\ Packages' = Packages
          /\ heap' = heap
          /\ ~crashed'
          /\ \A id \in Registered :
                /\ GenerateSchema(heap', EmptyMap, Ref(id), <<>>)
                     = GenerateSchema(heap, EmptyMap, Ref(id), <<>>)
                /\ generateExample(heap', Ref(id), <<>>) = generateExample(heap, Ref(id), <<>>)]_vars

\* C13's case: ResolveTypes and ResolvePackages have returned on a registry
\* holding a record with its fields, and a pass has been run again.
C13_Witness ==
    /\ Resolved
    /\ "ResolveAgain" \in done
    /\ ~crashed
    /\ \E id \in Registered : heap[id].Kind = KindStruct /\ Len(heap[id].Fields) >= 2

\* C14: after tracking rebind, whose second assignment gives u an
\* expression the tracker cannot type (users[0]), the entry of u holds no
\* type or the placeholder of an unknown type, and not the User recorded by
\* the first assignment.
C14_UndeterminedStoresUnknown ==
    (tracked = "rebind" /\ ~crashed)
        => /\ "u" \in DOMAIN Variables
           /\ \/ Variables["u"].Type = NilT
              \/ IsUnknown(Deref(heap, Variables["u"].Type))

\* The state C14 fails in: rebind was tracked on a registry holding User,
\* and u is still recorded with the record User of the first assignment.
C14_Witness ==
    /\ tracked = "rebind"
    /\ ~crashed
    /\ "u" \in DOMAIN Variables
    /\ Variables["u"].Type # NilT
    /\ Deref(heap, Variables["u"].Type).Kind = KindStruct
    /\ Deref(heap, Variables["u"].Type).Name = "User"

\* C15: tracking a function body never dies, whatever the shapes of its
\* assignments, that of pair (u, x := getThing(), two names for one
\* expression) included.
C15_TrackingNeverRaises ==
    tracked # "" => ~(crashed /\ fault = "index out of range")

\* The state C15 fails in: the tracker ran on pair and the process died
\* indexing the right-hand side with the position of the second name.
C15_Witness ==
    /\ tracked = "pair"
    /\ crashed
    /\ fault = "index out of range"
    /\ "u" \in DOMAIN Variables
    /\ "x" \notin DOMAIN Variables

\* The aliases and the type names looked up.
LookupAliases == {"q", "x"}
LookupTypeNames == {"Order", "Item", "Missing"}

\* The node the import table of the current package leads to for alias.T:
\* Types[T] of the package the alias is mapped to, none when the alias, the
\* package or the type is not there.
TargetOf(alias, T) ==
    IF /\ CurrentPackage \in DOMAIN Packages
       /\ alias \in DOMAIN Packages[CurrentPackage].Imports
       /\ IsRegistered(Packages[CurrentPackage].Imports[alias], T)
    THEN Ref(Packages[Packages[CurrentPackage].Imports[alias]].Types[T])
    ELSE NilT

\* C16: on every registry a run reaches, LookupType of alias.T returns the
\* node Types[T] of the package the current package imports as alias, or
\* none; LookupType of T returns the current package's T, or none; and the
\* call does not fail.
C16_LookupReturnsTarget ==
    /\ \A alias \in LookupAliases, T \in LookupTypeNames :
          LET r == LookupType(Mach, alias \o "." \o T)
          IN  r.t = TargetOf(alias, T) /\ r.m.crashed = crashed
    /\ \A T \in LookupTypeNames :
          LET r == LookupType(Mach, T)
          IN  /\ r.t = IF IsRegistered(CurrentPackage, T)
                        THEN Ref(Packages[CurrentPackage].Types[T]) ELSE NilT
              /\ r.m.crashed = crashed

\* C16's case: p, which imports q, is the current package and both were
\* scanned; the field Item of p's Order got q's Item from the lookup of
\* q.Item, which still returns it, while q.Missing, x.Item and the
\* unqualified Item return none and Order returns p's Order.
C16_Witness ==
    /\ CurrentPackage = PkgP
    /\ IsRegistered(PkgP, "Order")
    /\ IsRegistered(PkgQ, "Item")
    /\ "q" \in DOMAIN Packages[PkgP].Imports
    /\ FieldType(NodeOf(PkgP, "Order"), "Item") = Ref(Packages[PkgQ].Types["Item"])
    /\ LookupType(Mach, "q.Item").t = Ref(Packages[PkgQ].Types["Item"])
    /\ LookupType(Mach, "q.Missing").t = NilT
    /\ LookupType(Mach, "x.Item").t = NilT
    /\ LookupType(Mach, "Item").t = NilT
    /\ LookupType(Mach, "Order").t = Ref(Packages[PkgP].Types["Order"])

\* The names of the fields a struct declaration lists, in source order.
RECURSIVE DeclFieldNames(_, _)
DeclFieldNames(fields, i) ==
    IF i > Len(fields) THEN <<>> ELSE fields[i].Names \o DeclFieldNames(fields, i + 1)

\* The struct declarations called n of the package path p, by position.
StructDeclsOf(p, n) ==
    IF p \notin PkgPaths THEN {}
    ELSE {i \in DOMAIN Files(world, p).Decls :
             Files(world, p).Decls[i].Name = n /\ Files(world, p).Decls[i].Type.k = "struct"}

\* The types table of package p in the registry m (empty when p is absent).
TypesIn(m, p) == IF p \in DOMAIN m.Packages THEN m.Packages[p].Types ELSE EmptyMap

\* C17: registering two nodes of one name, one after the other, in the
\* current package leaves the name bound to the second: LookupType returns
\* it, every other entry of the package, its imports, every other package
\* and every node are as before.  So a record declared twice in a package
\* is registered as its last declaration has it.
C17_LastRegistrationWins ==
    /\ \A a, b \in DOMAIN heap :
          heap[a].Name = heap[b].Name =>
             LET m2 == RegisterType(RegisterType(Mach, a), b)
                 name == heap[b].Name
             IN  /\ LookupType(m2, name).t = Ref(b)
                 /\ DOMAIN m2.Packages = DOMAIN Packages \cup {CurrentPackage}
                 /\ \A p \in DOMAIN Packages \ {CurrentPackage} : m2.Packages[p] = Packages[p]
                 /\ DOMAIN TypesIn(m2, CurrentPackage) = DOMAIN TypesIn(Mach, CurrentPackage) \cup {name}
                 /\ \A n \in DOMAIN TypesIn(Mach, CurrentPackage) \ {name} :
                       TypesIn(m2, CurrentPackage)[n] = TypesIn(Mach, CurrentPackage)[n]
                 /\ CurrentPackage \in DOMAIN Packages
                       => m2.Packages[CurrentPackage].Imports = Packages[CurrentPackage].Imports
                 /\ m2.heap = heap
                 /\ m2.CurrentPackage = CurrentPackage
    /\ \A p \in DOMAIN Packages : \A n \in DOMAIN Packages[p].Types :
          LET node == NodeOf(p, n)
              ds == StructDeclsOf(node.Package, n)
              last == CHOOSE i \in ds : \A j \in ds : j <= i
          IN  (node.Kind = KindStruct /\ ds # {})
                 => [i \in DOMAIN node.Fields |-> node.Fields[i].Name]
                      = DeclFieldNames(Files(world, node.Package).Decls[last].Type.fields, 1)

\* C17's case: q of shop, which declares Size twice, was collected: two
\* nodes called Size exist, the one made last (with the fields W and H) is
\* the one registered, and Index, registered before them, is still there.
C17_Witness ==
    /\ world = "shop"
    /\ IsRegistered(PkgQ, "Size")
    /\ IsRegistered(PkgQ, "Index")
    /\ \E a, b \in DOMAIN heap :
          /\ a < b
          /\ heap[a].Name = "Size" /\ heap[a].Package = PkgQ
          /\ heap[b].Name = "Size" /\ heap[b].Package = PkgQ
          /\ Packages[PkgQ].Types["Size"] = b
          /\ Len(heap[b].Fields) = 2
          /\ LookupType([Mach EXCEPT !.CurrentPackage = PkgQ], "Size").t = Ref(b)

\* The package identifiers RegisterPackage is tried on.
PackageIds == PkgPaths \cup {"", "time"}

\* RegisterPackage(id) on the registry as it is: an absent id gets an empty
\* PackageInfo and nothing else changes; a present id changes nothing, and
\* neither does setting the current package to it a second time.
RegisterPackageContract ==
    \A id \in PackageIds :
        LET m1 == RegisterPackage(Mach, id)
        IN  /\ IF id \in DOMAIN Packages
               THEN m1 = Mach
               ELSE /\ DOMAIN m1.Packages = DOMAIN Packages \cup {id}
                    /\ m1.Packages[id] = PackageInfo(EmptyMap, EmptyMap)
                    /\ \A p \in DOMAIN Packages : m1.Packages[p] = Packages[p]
            /\ SetCurrentPackage(SetCurrentPackage(Mach, id), id) = SetCurrentPackage(Mach, id)
            /\ SetCurrentPackage(Mach, id).Packages = m1.Packages

\* C18: RegisterPackage creates an empty PackageInfo for an absent package
\* and leaves a present one as it is; and no step of a run (collection,
\* resolution passes with their SetCurrentPackage calls, tracking, analysis,
\* generation) removes a package, a registered type name or an import.
C18_PackagesOnlyGrow ==
    [][/\ DOMAIN Packages \subseteq DOMAIN Packages'
       /\ \A p \in DOMAIN Packages :
             /\ DOMAIN Packages[p].Types \subseteq DOMAIN Packages'[p].Types
             /\ DOMAIN Packages[p].Imports \subseteq DOMAIN Packages'[p].Imports
       /\ RegisterPackageContract']_vars

\* C18's case: both packages of cross were collected with their types and
\* p's import, the passes went over them (setting the current package to
\* each again) and a handler was tracked (its lookups register the current
\* package again).
C18_Witness ==
    /\ world = "cross"
    /\ Resolved
    /\ tracked # ""
    /\ ~crashed
    /\ IsRegistered(PkgP, "Order")
    /\ IsRegistered(PkgQ, "Item")
    /\ "q" \in DOMAIN Packages[PkgP].Imports
    /\ CurrentPackage \in DOMAIN Packages

\* C19: once ResolveTypes and ResolvePackages have returned, a step of the
\* tracker or of the response analyzer (on any handler) leaves the registry
\* as it was: the same packages with the same type and import tables, and
\* every node as it was.
C19_AnalysisLeavesRegistry ==
    [][(Resolved /\ (tracked' # tracked \/ analyzed' # analyzed))
          => /\ Packages' = Packages
             /\ heap' = heap]_vars

\* The state C19 fails in: the passes returned on a registry nothing was
\* collected into, a handler was tracked, and the registry now holds a
\* package (the one of the empty name) it did not hold before.
C19_Witness ==
    /\ Resolved
    /\ tracked # ""
    /\ \A p \in PkgPaths : collects[p] = 0
    /\ DOMAIN Packages = {""}
    /\ Packages[""] = PackageInfo(EmptyMap, EmptyMap)

\* The schemas generated for a map whose values are arrays of a record.
MapOfArraySchemas ==
    {i \in DOMAIN generated :
        /\ generated[i].op = "schema"
        /\ Deref(heap, generated[i].Type).Kind = KindMap
        /\ Deref(heap, generated[i].Type).ValueType # NilT
        /\ Deref(heap, Deref(heap, generated[i].Type).ValueType).Kind = KindArray
        /\ Deref(heap, Deref(heap, generated[i].Type).ValueType).ElementType # NilT
        /\ Deref(heap, Deref(heap, Deref(heap, generated[i].Type).ValueType).ElementType).Kind
              = KindStruct}

\* C20: the schema generated for map[string][]R, R a record, is an object
\* whose additional_properties is an array whose items is the schema a
\* generator that has remembered nothing generates for R.
C20_MapOfArrayItems ==
    \A i \in MapOfArraySchemas :
        LET R == Deref(heap, Deref(heap, generated[i].Type).ValueType).ElementType
            x == GenerateSchema(heap, EmptyMap, R, <<>>)
        IN  ~x.over =>
              /\ generated[i].out # NilS
              /\ generated[i].out.Type = "object"
              /\ generated[i].out.AdditionalProperties # NilS
              /\ generated[i].out.AdditionalProperties.Type = "array"
              /\ generated[i].out.AdditionalProperties.Items = x.s

\* C20's case: the schema of listUsers' response, of type
\* map[string][]User, was generated after resolution, and its
\* additional_properties.items is the object with User's three properties.
C20_Witness ==
    \E i \in MapOfArraySchemas :
        /\ generated[i].fn = "listUsers"
        /\ Resolved
        /\ Deref(heap, generated[i].Type).Name = "map[string][]User"
        /\ generated[i].out.AdditionalProperties.Items # NilS
        /\ generated[i].out.AdditionalProperties.Items.Type = "object"
        /\ DOMAIN generated[i].out.AdditionalProperties.Items.Properties = {"ID", "Name", "Profile"}

\* C21: once a group variable is bound from a recognized Echo instance, the
\* route-definition calls on that variable in the scanned file are recorded
\* as routes, whatever the variable is called.
IsGroupOf(stmt, v) ==
    /\ stmt.k = "assign"
    /\ stmt.Lhs[1] = EIdent(v)
    /\ stmt.Rhs[1].k = "call"
    /\ stmt.Rhs[1].fun.sel = "Group"
    /\ stmt.Rhs[1].fun.x.name \in echoVarNames
IsRouteOn(stmt, v) ==
    /\ stmt.k = "expr"
    /\ stmt.x.fun.x = EIdent(v)
    /\ getHTTPMethod(stmt.x.fun.sel) # ""
    /\ extractStringLiteral(stmt.x.args[1]) # ""
RouteOf(stmt) ==
    RouteInfo(getHTTPMethod(stmt.x.fun.sel), extractStringLiteral(stmt.x.args[1]),
              extractHandlerInfo(stmt.x.args[2]))
C21_GroupRoutesRecorded ==
    scans > 0 =>
        \A f \in DOMAIN scanFiles : \A i, j \in DOMAIN scanFiles[f] : \A v \in GroupNames :
            (i < j /\ IsGroupOf(scanFiles[f][i], v) /\ IsRouteOn(scanFiles[f][j], v))
                => \E r \in DOMAIN Routes : Routes[r] = RouteOf(scanFiles[f][j])

\* The file of the README's pattern, scanned, with no route found.
C21_Witness ==
    /\ scans = 1
    /\ scanFiles = <<<<NewEcho("e"), GroupOf("g", "e"), RouteOn("g", "GET", "/users")>>>>
    /\ "g" \notin echoVarNames
    /\ Routes = <<>>

\* A group bound to one of the scanner's preset names has its routes found.
C21_PresetNameRecorded ==
    /\ scans = 1
    /\ scanFiles = <<<<NewEcho("e"), GroupOf("router", "e"), RouteOn("router", "GET", "/users")>>>>
    /\ Routes = <<RouteInfo("GET", "/users", "getUsers")>>

\* The pointers a node holds: its fields' types, its element, its key and
\* value.
ChildrenOf(node) ==
    CASE node.Kind = KindStruct -> {node.Fields[i].Type : i \in DOMAIN node.Fields}
      [] node.Kind \in {KindArray, KindPointer} -> {node.ElementType}
      [] node.Kind = KindMap -> {node.KeyType, node.ValueType}
      [] OTHER -> {}

RECURSIVE SoundBelow(_, _)
\* t and everything below it is there and resolved; a pointer back to a node
\* of path, the nodes the walk came through, closes a cycle and is let be.
SoundBelow(t, path) ==
    IF t = NilT THEN FALSE
    ELSE IF t.tag = "ref" /\ t.id \in path THEN TRUE
    ELSE /\ Deref(heap, t).IsResolved
         /\ \A c \in ChildrenOf(Deref(heap, t)) :
               SoundBelow(c, IF t.tag = "ref" THEN path \cup {t.id} ELSE path)

\* C22: a registered node with IsResolved = true has no descendant that is
\* nil or has IsResolved = false, but for the descendants reached through a
\* pointer that closes a cycle.
C22_ResolvedIsDeep ==
    \A id \in Registered :
        heap[id].IsResolved => \A c \in ChildrenOf(heap[id]) : SoundBelow(c, {id})

\* The state C22 fails in: the PackageResolver has scanned and resolved
\* Order, which is marked resolved while its field Owner has no type.
C22_Witness ==
    /\ world = "cross"
    /\ done = {"ResolvePackages"}
    /\ PkgP \in ParsedPackages
    /\ IsRegistered(PkgP, "Order")
    /\ NodeOf(PkgP, "Order").IsResolved
    /\ FieldType(NodeOf(PkgP, "Order"), "Owner") = NilT

\* The packages p depends on in a dependency graph, and the packages reached
\* from S along it in up to n steps.
DepsOf(dependencies, p) == IF p \in DOMAIN dependencies THEN Range(dependencies[p]) ELSE {}

RECURSIVE ReachedFrom(_, _, _)
ReachedFrom(dependencies, S, n) ==
    IF n = 0 THEN S
    ELSE ReachedFrom(dependencies, S \cup UNION {DepsOf(dependencies, q) : q \in S}, n - 1)

Acyclic(dependencies) ==
    \A p \in DOMAIN dependencies :
        p \notin ReachedFrom(dependencies, DepsOf(dependencies, p), Cardinality(PkgPaths))

\* The calls of resolvePackageTypes in log come dependencies first and no
\* package comes twice.
DependenciesFirst(log, dependencies) ==
    /\ \A i, j \in DOMAIN log : log[i] = log[j] => i = j
    /\ \A i \in DOMAIN log : \A q \in DepsOf(dependencies, log[i]) :
           \E j \in 1..(i - 1) : log[j] = q

\* C23: on a registry whose import graph has no cycle, a call of
\* ResolvePackages resolves the types of a package after those of every
\* package it depends on and never twice, and when it returns it has
\* resolved the types of every registered package, in whatever order the
\* packages and their types are visited.
C23_DependenciesFirstOnce ==
    MayRun("ResolvePackages") =>
        \A o \in Orders(Packages) :
            Acyclic(buildPackageDependencies(Mach, o)) =>
                With(PR_ResolvePackages(Mach, o),
                     LAMBDA m :
                        /\ DependenciesFirst(m.log, buildPackageDependencies(Mach, o))
                        /\ ~m.crashed => DOMAIN Packages \subseteq Range(m.log))

\* C23's case: p, which imports q, and q are registered and the packages
\* are visited p first; q's types are resolved first all the same.
C23_Witness ==
    /\ MayRun("ResolvePackages")
    /\ world = "cross"
    /\ DOMAIN Packages = {PkgP, PkgQ}
    /\ DepsOf(buildPackageDependencies(Mach, CHOOSE o \in Orders(Packages) : TRUE), PkgP) = {PkgQ}
    /\ \E o \in Orders(Packages) :
          /\ o.pkgs = <<PkgP, PkgQ>>
          /\ PR_ResolvePackages(Mach, o).log = <<PkgQ, PkgP>>

\* The variables and the record types of the bindings C24 is checked on.
RebindNames == {"u", "v"}
RebindTypes == {"User", "Profile", "Size"}
Bind(tok, v, T) == SAssign(tok, <<EIdent(v)>>, <<EComposite(TIdent(T))>>)

\* C24: when the tracker, in any state and with any scope table, processes
\* v := A{} and then v = B{}, B a type the registry resolves, the entry of v
\* is B and the assignment of B has changed no other entry; and after
\* tracking swap (v := User{}; ...; v = Profile{}) the entry of v is Profile.
C24_LastAssignmentWins ==
    /\ (tracked = "swap" /\ "v" \in DOMAIN Variables)
          => Deref(heap, Variables["v"].Type).Name = "Profile"
    /\ ~crashed =>
          \A v \in RebindNames : \A A \in RebindTypes : \A B \in RebindTypes :
              With(trackAssignment(Mach, Variables, Bind(":=", v, A)),
                   LAMBDA r1 :
                      With(trackAssignment(r1.m, r1.V, Bind("=", v, B)),
                           LAMBDA r2 :
                              With(resolveExpressionType(r1.m, r1.V, EComposite(TIdent(B))).t,
                                   LAMBDA typeB :
                                      (v \in DOMAIN r1.V /\ typeB # NilT) =>
                                          /\ Deref(r2.m.heap, typeB).Name = B
                                          /\ r2.V[v].Type = typeB
                                          /\ DOMAIN r2.V = DOMAIN r1.V
                                          /\ \A x \in DOMAIN r1.V \ {v} : r2.V[x] = r1.V[x])))

\* C24's case: swap was tracked on a registry that resolves User and
\* Profile; v, bound to User first, stands at Profile.
C24_Witness ==
    /\ tracked = "swap"
    /\ IsRegistered(CurrentPackage, "User")
    /\ "v" \in DOMAIN Variables
    /\ Variables["v"].Type = Ref(Packages[CurrentPackage].Types["Profile"])

\* A step of TypeCollector.CollectTypes on the package path p.
CollectedBy(p) == collects'[p] = collects[p] + 1 /\ ParsedPackages' = ParsedPackages

\* The record declaration i of p is registered as the collector leaves it:
\* under p, unresolved, one field per declared name in source order, every
\* field type nil, and it is the node a lookup of the name in p returns.
AsCollected(p, i) ==
    LET typeSpec == Files(world, p).Decls[i]
    IN  /\ IsRegistered(p, typeSpec.Name)
        /\ NodeOf(p, typeSpec.Name).Kind = KindStruct
        /\ NodeOf(p, typeSpec.Name).Package = p
        /\ ~NodeOf(p, typeSpec.Name).IsResolved
        /\ [j \in DOMAIN NodeOf(p, typeSpec.Name).Fields |-> NodeOf(p, typeSpec.Name).Fields[j].Name]
              = DeclFieldNames(typeSpec.Type.fields, 1)
        /\ \A j \in DOMAIN NodeOf(p, typeSpec.Name).Fields :
              NodeOf(p, typeSpec.Name).Fields[j].Type = NilT
        /\ LookupType([Mach EXCEPT !.CurrentPackage = p], typeSpec.Name).t
              = Ref(Packages[p].Types[typeSpec.Name])

\* The record declarations of p, and those no later declaration of p names
\* again.
StructDecls(p) == {i \in DOMAIN Files(world, p).Decls : Files(world, p).Decls[i].Type.k = "struct"}
LastStructDecls(p) ==
    {i \in StructDecls(p) :
        \A j \in DOMAIN Files(world, p).Decls :
            Files(world, p).Decls[j].Name = Files(world, p).Decls[i].Name => j <= i}

\* C25 as stated: when CollectTypes(files, p) returns, every record
\* declaration of p is registered under p as an unresolved node with one
\* field per declared name, in order, each of nil type, and a lookup of its
\* name in p returns that node.
C25_EveryDeclarationCollected ==
    [][\A p \in PkgPaths : CollectedBy(p) => \A i \in StructDecls(p) : AsCollected(p, i)']_vars

\* C25, amended: the same of every record declaration that is the last of p
\* to declare its name.
C25_LastDeclarationCollected ==
    [][\A p \in PkgPaths : CollectedBy(p) => \A i \in LastStructDecls(p) : AsCollected(p, i)']_vars

\* C25's case: CollectTypes ran on p and q of shop and nothing else did;
\* User and the second Size (W, H int) are registered as declared, the first
\* Size (W int) is not.
C25_Witness ==
    /\ world = "shop"
    /\ done = {} /\ tracked = ""
    /\ ParsedPackages = {}
    /\ collects[PkgP] = 1 /\ collects[PkgQ] = 1
    /\ AsCollected(PkgP, 1)
    /\ Files(world, PkgQ).Decls[3] = DeclSizeWide
    /\ AsCollected(PkgQ, 3)
    /\ Len(NodeOf(PkgQ, "Size").Fields) = 2
    /\ ~AsCollected(PkgQ, 2)

\* The imports of p's files that are not of the standard library.
ForeignImports(p) ==
    {i \in DOMAIN Files(world, p).Imports : ContainsDot(Files(world, p).Imports[i].Path)}

\* C26: after any sequence of CollectTypes and ScanPackage calls every node
\* in the type table of a package P has Package = P, and every import of a
\* package whose files were read (those of the standard library apart) is in
\* P's import table under its alias.
C26_TablesHoldOwnEntries ==
    (done = {} /\ tracked = "" /\ ~crashed) =>
        /\ \A p \in DOMAIN Packages : \A n \in DOMAIN Packages[p].Types :
               heap[Packages[p].Types[n]].Package = p
        /\ \A p \in PkgPaths : collects[p] > 0 =>
               \A i \in ForeignImports(p) :
                   /\ p \in DOMAIN Packages
                   /\ ImportAlias(Files(world, p).Imports[i]) \in DOMAIN Packages[p].Imports
                   /\ Packages[p].Imports[ImportAlias(Files(world, p).Imports[i])]
                         = Files(world, p).Imports[i].Path

\* The state C26 fails in: ScanPackage(p) on cross, where p imports q, has
\* scanned q on the way and then registered p's Order in q's table.
C26_Witness ==
    /\ world = "cross"
    /\ done = {} /\ tracked = "" /\ ~crashed
    /\ ParsedPackages = {PkgP, PkgQ}
    /\ CurrentPackage = PkgQ
    /\ IsRegistered(PkgQ, "Order")
    /\ NodeOf(PkgQ, "Order").Package = PkgP
    /\ ~IsRegistered(PkgP, "Order")
    /\ Packages[PkgP].Imports["q"] = PkgQ

\* C27: the scope table a handler's tracking ends with does not depend on
\* the order the last pass before it visited the packages in: from any
\* resolved registry, two runs of AnalyzeNestedStructs that differ only in
\* the order of the packages, each followed by TrackFunction on a handler,
\* bind the handler's variables to the same nodes.
C27_SameTypeInAnyOrder ==
    (MayRun("AnalyzeNestedStructs") /\ Resolved) =>
        \A f \in Funcs(world) : \A o1 \in Orders(Packages) : \A o2 \in Orders(Packages) :
            o1.types = o2.types =>
                TrackFunction(AnalyzeNestedStructs(Mach, o1), Func(f)).V
                    = TrackFunction(AnalyzeNestedStructs(Mach, o2), Func(f)).V

\* The state C27 fails in: p and q of twins both declare Size, the passes
\* have run, the last of them visited q last, and s := Size{} in getSize, a
\* handler of p, is bound to q's Size.
C27_Witness ==
    /\ world = "twins"
    /\ Resolved
    /\ "AnalyzeNestedStructs" \in done
    /\ tracked = "getSize"
    /\ IsRegistered(PkgP, "Size")
    /\ IsRegistered(PkgQ, "Size")
    /\ CurrentPackage = PkgQ
    /\ "s" \in DOMAIN Variables
    /\ Variables["s"].Type = Ref(Packages[PkgQ].Types["Size"])
    /\ Variables["s"].Type # Ref(Packages[PkgP].Types["Size"])

\* The same run with p visited last binds s to p's Size.
C27_OtherOrder ==
    /\ world = "twins"
    /\ Resolved
    /\ "AnalyzeNestedStructs" \in done
    /\ tracked = "getSize"
    /\ IsRegistered(PkgQ, "Size")
    /\ CurrentPackage = PkgP
    /\ "s" \in DOMAIN Variables
    /\ Variables["s"].Type = Ref(Packages[PkgP].Types["Size"])

\* What a generator that has processed nothing returns for the type t.
FreshSchema(t) == GenerateSchema(heap, EmptyMap, t, <<>>)

\* C28: in the schema a generator returned for a record, the property of
\* every field that has a type is the schema a generator that has processed
\* nothing returns for the type of that field: no field is rendered with the
\* schema remembered for another type.
C28_SchemaOfOwnStructure ==
    \A i \in StructSchemas :
        \A j \in DOMAIN Deref(heap, generated[i].Type).Fields :
            With(Deref(heap, generated[i].Type).Fields[j],
                 LAMBDA field :
                    (/\ field.Type # NilT
                     /\ WireName(field) \in DOMAIN generated[i].out.Properties
                     /\ ~FreshSchema(field.Type).over
                     /\ FreshSchema(field.Type).s # NilS)
                    => generated[i].out.Properties[WireName(field)]
                          = Property(FreshSchema(field.Type).s))

\* The state C28 fails in: the schema generated for Box, whose fields Lo
\* (struct{X int}) and Hi (struct{Y string}) are both nodes called
\* anonymous of one package, gives Hi the properties of Lo.
C28_Witness ==
    \E i \in StructSchemas :
        /\ world = "twins"
        /\ Deref(heap, generated[i].Type).Name = "Box"
        /\ FieldType(Deref(heap, generated[i].Type), "Lo") # NilT
        /\ FieldType(Deref(heap, generated[i].Type), "Hi") # NilT
        /\ FieldType(Deref(heap, generated[i].Type), "Lo").Kind = KindStruct
        /\ FieldType(Deref(heap, generated[i].Type), "Hi").Kind = KindStruct
        /\ DOMAIN FieldType(Deref(heap, generated[i].Type), "Lo").Fields = {1}
        /\ FieldType(Deref(heap, generated[i].Type), "Lo").Fields[1].Name = "X"
        /\ FieldType(Deref(heap, generated[i].Type), "Hi").Fields[1].Name = "Y"
        /\ schemaKey(FieldType(Deref(heap, generated[i].Type), "Lo"))
              = schemaKey(FieldType(Deref(heap, generated[i].Type), "Hi"))
        /\ DOMAIN generated[i].out.Properties["Lo"].Properties = {"X"}
        /\ DOMAIN generated[i].out.Properties["Hi"].Properties = {"X"}

\* C29: a step in which ResolvePackages runs and returns leaves the set of
\* registered packages as it was.
C29_ResolvePackagesKeepsPackages ==
    [][("ResolvePackages" \notin done /\ "ResolvePackages" \in done')
          => DOMAIN Packages' = DOMAIN Packages]_vars

\* The state C29 fails in: only p of cross, which imports q, was collected;
\* ResolvePackages has returned and q, for which nothing was collected, is
\* registered with empty tables.
C29_Witness ==
    /\ world = "cross"
    /\ collects[PkgP] = 1
    /\ collects[PkgQ] = 0
    /\ ParsedPackages = {}
    /\ done = {"ResolvePackages"}
    /\ DOMAIN Packages = {PkgP, PkgQ}
    /\ Packages[PkgP].Imports["q"] = PkgQ
    /\ Packages[PkgQ] = PackageInfo(EmptyMap, EmptyMap)

\* No key comes twice in the keys a traversal entered.
EnteredOnce(entered) == \A i, j \in DOMAIN entered : entered[i] = entered[j] => i = j

\* C30: from every registry a run reaches and in every visiting order,
\* AnalyzeNestedStructs returns, and each of its traversals (one per
\* registered record) has entered no (package, name) pair twice.
C30_NestedTraversalOnce ==
    MayRun("AnalyzeNestedStructs") =>
        \A o \in Orders(Packages) :
            With(AnalyzeNestedStructs(Mach, o),
                 LAMBDA m :
                    /\ ~m.crashed
                    /\ Len(m.log) = Cardinality({id \in Registered : heap[id].Kind = KindStruct})
                    /\ \A i \in DOMAIN m.log : Len(m.log[i]) >= 1 /\ EnteredOnce(m.log[i]))

\* C30's case: Node of recursive holds a pointer to Node itself and Pong a
\* pointer to Ping; the traversal from Node ends having entered Node once,
\* the one from Pong having entered Pong and Ping.
C30_Witness ==
    /\ world = "recursive"
    /\ MayRun("AnalyzeNestedStructs")
    /\ IsRegistered(PkgP, "Node") /\ IsRegistered(PkgP, "Pong")
    /\ FieldType(NodeOf(PkgP, "Node"), "Next") # NilT
    /\ Deref(heap, FieldType(NodeOf(PkgP, "Node"), "Next")).ElementType
          = Ref(Packages[PkgP].Types["Node"])
    /\ analyzeNestedStructs(heap, Ref(Packages[PkgP].Types["Node"]),
                            [visited |-> {}, entered |-> <<>>]).entered
          = <<<<PkgP, "Node">>>>
    /\ analyzeNestedStructs(heap, Ref(Packages[PkgP].Types["Pong"]),
                            [visited |-> {}, entered |-> <<>>]).entered
          = <<<<PkgP, "Pong">>, <<PkgP, "Ping">>>>

====
